---- MODULE Spec2Model ----
(***************************************************************************)
(* Model of the e-commerce chatbot orchestration of app/services/chat:     *)
(* EcommerceChatbotAgent (guardrail_check -> {reject_query |               *)
(* retrieve_knowledge -> generate_response | generate_response} -> END),   *)
(* the Abacus client, the SessionManager that keeps the conversation id in *)
(* Redis, and the history cache the agent reads and updates.               *)
(***************************************************************************)
EXTENDS FiniteSets, Integers, Sequences, TLC

\* ------------------------------------------------------------------------
\* Values
\* ------------------------------------------------------------------------

\* Python None (a missing conversation id, a missing Redis key once decoded)
None == "<None>"

\* request slots, user ids (the empty id is a legal chatbot_request.user_id)
Reqs == {1, 2}
Users == {"u1", "u2", ""}
Messages == {"m1", "m2"}

\* nodes of the compiled graph
Nodes == {"guardrail_check", "retrieve_knowledge", "generate_response", "reject_query"}

\* knowledge sources in the order retrieve_knowledge_node queries them
SourceOrder == <<"products", "services", "consultations", "specialists">>
Sources == {SourceOrder[i] : i \in 1..Len(SourceOrder)}

\* last exchanges used as conversational context ([-3:])
HistoryWindow == 3

\* bound of the stored history (configured in the cache manager)
MaxHistory == 4

\* turns run by the multi-turn specification
MaxTurns == 6

rejection_message == "I'm an e-commerce assistant designed to help with shopping-related questions."

ApologyMessage == "I apologize, but I encountered an error. Please try again."

\* ------------------------------------------------------------------------
\* Text helpers
\* ------------------------------------------------------------------------

RECURSIVE JoinWith(_, _)
\* sep.join(lines)
JoinWith(lines, sep) ==
    IF lines = <<>> THEN ""
    ELSE IF Len(lines) = 1 THEN lines[1]
    ELSE lines[1] \o sep \o JoinWith(Tail(lines), sep)

RECURSIVE Flatten(_)
\* concatenation of a sequence of sequences
Flatten(ss) == IF ss = <<>> THEN <<>> ELSE ss[1] \o Flatten(Tail(ss))

\* seq[-n:]
LastN(seq, n) == IF Len(seq) <= n THEN seq ELSE SubSeq(seq, Len(seq) - n + 1, Len(seq))

\* seq[:n]
FirstN(seq, n) == IF Len(seq) <= n THEN seq ELSE SubSeq(seq, 1, n)

\* variant: the name is compared as it is written
Lower_as_written(s) == s

\* str.lower() on the language names the classifier reports
Lower(s) ==
    CASE s = "English" -> "english"
      [] s = "Arabic" -> "arabic"
      [] OTHER -> s

\* str.upper() on the source names
Upper(s) ==
    CASE s = "products" -> "PRODUCTS"
      [] s = "services" -> "SERVICES"
      [] s = "consultations" -> "CONSULTATIONS"
      [] s = "specialists" -> "SPECIALISTS"
      [] OTHER -> s

\* str.strip() on the texts the translation call returns
Strip(s) ==
    CASE s = " what is the price\n" -> "what is the price"
      [] OTHER -> s

\* ------------------------------------------------------------------------
\* Outcomes of the external calls (inputs of the steps)
\* ------------------------------------------------------------------------

\* a JSON field of the classification object: a boolean, or not there
JsonBools == {"true", "false", "absent"}
\* the language field: a name, or not there
JsonLanguages == {"English", "english", "Arabic", "absent"}

\* OpenAIClient.chat raised; json.loads raised; the JSON is no object;
\* or the JSON is an object with these fields
ClsFailure(k) == [kind |-> k, language |-> "-", is_followup |-> "-", is_ecommerce |-> "-"]
ClsFailures == {ClsFailure(k) : k \in {"raise", "unparsable", "nonobject"}}
ClsObjects == [kind : {"object"}, language : JsonLanguages,
               is_followup : JsonBools, is_ecommerce : JsonBools]
\* an object whose language is JSON null (None has no lower())
ClsNullLanguage ==
    {[kind |-> "object", language |-> "null", is_followup |-> "true", is_ecommerce |-> "false"],
     [kind |-> "object", language |-> "null", is_followup |-> "false", is_ecommerce |-> "true"]}
ClsOutcomes == ClsFailures \cup ClsObjects \cup ClsNullLanguage

\* the translation call: it raises, or returns a text
Raised == "<raised>"
NotCalled == "<not called>"
QueryTranslations == {Raised, "what is the price", " what is the price\n"}
LlmTranslateRejection(lang) == "rejection in " \o lang
RejectTranslations(lang) == {Raised, LlmTranslateRejection(lang)}

\* collection.query of a source: raises, no match, matches
BackendOutcomes == {"raise", "empty", "hits"}

\* the outcomes of the four sources in one fan-out
BackendCombinations == [Sources -> BackendOutcomes]

\* the Abacus SDK: no client, evaluate_prompt raises, or the shape of its result
SdkOutcomes == {"no_client", "raise", "content", "content_none", "response", "str", "other"}

\* one Redis command: served, or the client is missing / the command raises
RedisOutcomes == {"ok", "down"}

\* ------------------------------------------------------------------------
\* State
\* ------------------------------------------------------------------------

VARIABLES
    pc,            \* per request: the node about to run
    request,       \* per request: the chatbot_request given to chat
    state,         \* per request: the ChatbotState dictionary
    reply,         \* per request: chatbot_response.response returned by chat
    historyStore,  \* per user: the exchanges kept by the cache manager
    convStore,     \* per user: the value of key abacus_conversation:{user_id}
    cls,           \* per request: what the classification call produced
    path,          \* per request: the nodes executed, in order
    calls,         \* per request: the external calls made
    lastOp,        \* the store write made by the last step
    turns,         \* chat requests started so far
    session,       \* per request: the user's entries when it started, the history
                   \* its update has loaded, the store writes it has made
    knowledge,     \* the four collections of the vector database and the last
                   \* operation of a knowledge manager on them
    skeleton       \* the agent of langgraph_chatbot.py at work on one request

vars == <<pc, request, state, reply, historyStore, convStore, cls, path, calls, lastOp, turns,
          session, knowledge, skeleton>>

\* a HistoryItem
Exchange(m, resp) == [message |-> m, response |-> resp]

\* a chatbot_request
chatbot_request(message, user_id) == [message |-> message, user_id |-> user_id]

\* the result of calling a node: the state it returns, or an exception that
\* leaves the node
Returns(st) == [raised |-> FALSE, state |-> st]
Raises(st) == [raised |-> TRUE, state |-> st]

\* where a request goes after a node call
after_node(result, next) == IF result.raised THEN "raised" ELSE next

\* variant: the context starts with an empty list for each source
initial_state_empty_entries(message, user_id) ==
    [messages |-> <<>>,
     user_query |-> message,
     user_id |-> user_id,
     conversation_id |-> None,
     user_language |-> "English",
     english_query |-> message,
     is_ecommerce_query |-> FALSE,
     is_followup |-> FALSE,
     skip_retrieval |-> FALSE,
     retrieved_contexts |-> [i \in 1..4 |->
        [key |-> <<"products", "services", "consultations", "specialists">>[i], value |-> <<>>]],
     final_response |-> "",
     metadata |-> <<>>]

\* initial_state of chat
initial_state(message, user_id) ==
    [messages |-> <<>>,
     user_query |-> message,
     user_id |-> user_id,
     conversation_id |-> None,
     user_language |-> "English",
     english_query |-> message,
     is_ecommerce_query |-> FALSE,
     is_followup |-> FALSE,
     skip_retrieval |-> FALSE,
     retrieved_contexts |-> <<>>,
     final_response |-> "",
     metadata |-> <<>>]

NoCalls ==
    [classify |-> <<>>, translate_query |-> 0, translate_reject |-> 0,
     query_translation |-> NotCalled, reject_translation |-> NotCalled,
     search |-> <<>>, backends |-> <<>>, generate |-> <<>>]

NoOp == [op |-> "none", user |-> "", value |-> <<>>, served |-> FALSE]

NoCls == ClsFailure("-")

\* the stored bytes of a conversation id, and a key that is not there
NoKey == <<>>
Encode(text) == <<"bytes", text>>
Decode(bytes) == bytes[2]

\* what a request knows of its user's entries before chat starts
NoSession ==
    [start |-> [history |-> <<>>, handle |-> NoKey],
     loaded |-> FALSE, history |-> <<>>, writes |-> <<>>]

\* a stored history the program produces in MaxHistory turns of user u1
PriorHistory ==
    [i \in 1..MaxHistory |->
        IF i % 2 = 1 THEN Exchange("m1", "answer") ELSE Exchange("m2", ApologyMessage)]

\* ------------------------------------------------------------------------
\* Session store (conversation id in Redis) and history cache
\* ------------------------------------------------------------------------

\* variant: a key that is not there is read as an empty conversation id
get_conversation_id_reads_missing(redis, store, user_id) ==
    IF redis = "down" \/ user_id = "" THEN None
    ELSE IF store[user_id] # NoKey /\ store[user_id] # Encode("") THEN Decode(store[user_id])
    ELSE ""

\* variant: the stored id is returned whatever the outcome of the command
get_conversation_id_whatever_outcome(redis, store, user_id) ==
    IF store[user_id] # NoKey /\ store[user_id] # Encode("") THEN Decode(store[user_id])
    ELSE None

\* SessionManager.get_conversation_id
get_conversation_id(redis, store, user_id) ==
    IF redis = "down" \/ user_id = "" THEN None
    ELSE IF store[user_id] # NoKey /\ store[user_id] # Encode("") THEN Decode(store[user_id])
    ELSE None

\* variant: the arguments of setex are swapped, the user id is the value
set_conversation_id_stores_user(redis, store, user_id, conversation_id) ==
    IF redis = "down" \/ user_id = "" THEN store
    ELSE [store EXCEPT ![user_id] = Encode(user_id)]

\* variant: the key is written with an empty value
set_conversation_id_stores_empty(redis, store, user_id, conversation_id) ==
    IF redis = "down" \/ user_id = "" THEN store
    ELSE [store EXCEPT ![user_id] = Encode("")]

\* SessionManager.set_conversation_id: the store after the call
set_conversation_id(redis, store, user_id, conversation_id) ==
    IF redis = "down" \/ user_id = "" THEN store
    ELSE [store EXCEPT ![user_id] = Encode(conversation_id)]

\* the stored form of a HistoryItem, and its parsed form
DumpItem(item) == <<"message", item.message, "response", item.response>>
LoadItem(entry) == Exchange(entry[2], entry[4])
DumpHistory(history) == [i \in 1..Len(history) |-> DumpItem(history[i])]
LoadHistory(entries) == [i \in 1..Len(entries) |-> LoadItem(entries[i])]

\* variant: the history is kept under one key for all users
get_history_shared_key(store, user_id) == LoadHistory(store["u1"])

\* cache_manager.get_history
get_history(store, user_id) == LoadHistory(store[user_id])

\* variant: the oldest exchanges are kept
TruncateHistory_keeps_oldest(history) == FirstN(history, MaxHistory)

\* truncation of the stored history to the configured bound
TruncateHistory(history) == LastN(history, MaxHistory)

\* cache_manager.update_history: the store after the call
update_history(store, user_id, new_message, new_response) ==
    [store EXCEPT ![user_id] =
        DumpHistory(TruncateHistory(Append(get_history(store, user_id),
                                           Exchange(new_message, new_response))))]

\* ------------------------------------------------------------------------
\* guardrail_check_node
\* ------------------------------------------------------------------------

\* the "User: ..." / "Assistant: ..." lines of the exchanges
history_lines(recent_history) ==
    Flatten([i \in 1..Len(recent_history) |->
                <<"User: " \o recent_history[i].message,
                  "Assistant: " \o recent_history[i].response>>])

\* variant: the whole stored history, without the [-3:] window
history_context_unbounded(history) ==
    IF history = <<>> THEN ""
    ELSE JoinWith(history_lines(history), "\n")

\* variant: the window is taken at the old end of the history
history_context_oldest(history) ==
    IF history = <<>> THEN ""
    ELSE JoinWith(history_lines(FirstN(history, HistoryWindow)), "\n")

\* history_context of the guardrail, conversation_history of the generation
history_context(history) ==
    IF history = <<>> THEN ""
    ELSE JoinWith(history_lines(LastN(history, HistoryWindow)), "\n")

\* the classification prompt: the history section and the query
combined_prompt(history, user_query) ==
    [history |-> IF history_context(history) # "" THEN history_context(history)
                 ELSE "[No previous conversation]",
     query |-> user_query]

\* result.get(field, default)
dict_get(field, default) == IF field = "absent" THEN default ELSE field

\* variant: the except branch blocks the query instead of letting it through
fail_open_closed(st) ==
    [st EXCEPT !.user_language = "English",
               !.english_query = st.user_query,
               !.is_followup = FALSE,
               !.is_ecommerce_query = FALSE,
               !.skip_retrieval = FALSE]

\* variant: the except branch leaves skip_retrieval as it finds it
fail_open_keeps_skip(st) ==
    [st EXCEPT !.user_language = "English",
               !.english_query = st.user_query,
               !.is_followup = FALSE,
               !.is_ecommerce_query = TRUE]

\* variant: the except branch leaves is_ecommerce_query as it finds it
fail_open_keeps_domain(st) ==
    [st EXCEPT !.user_language = "English",
               !.english_query = st.user_query,
               !.is_followup = FALSE,
               !.skip_retrieval = FALSE]

\* the except branch of the guardrail: default to safe values
fail_open(st) ==
    [st EXCEPT !.user_language = "English",
               !.english_query = st.user_query,
               !.is_followup = FALSE,
               !.is_ecommerce_query = TRUE,
               !.skip_retrieval = FALSE]

\* the language the node reads from a classification outcome
parsed_language(outcome) == dict_get(outcome.language, "English")

\* whether the node calls the translation of the query
translates_query(outcome) ==
    /\ outcome.kind = "object"
    /\ parsed_language(outcome) # "null"
    /\ Lower(parsed_language(outcome)) # "english"

\* variant: no except branch around the classification call
guardrail_check_node_unguarded(st, outcome, translation) ==
    IF outcome.kind = "object" /\ parsed_language(outcome) # "null"
    THEN Returns([st EXCEPT
                 !.user_language = parsed_language(outcome),
                 !.is_followup = (dict_get(outcome.is_followup, "false") = "true"),
                 !.is_ecommerce_query = (dict_get(outcome.is_ecommerce, "true") = "true"),
                 !.skip_retrieval = (dict_get(outcome.is_followup, "false") = "true"),
                 !.english_query = IF translation \in {Raised, NotCalled}
                                   THEN st.user_query ELSE Strip(translation)])
    ELSE Raises(st)

\* variant: one try block, a translation that raises ends in the except branch
guardrail_check_node_single_try(st, outcome, translation) ==
    Returns(
    IF outcome.kind # "object" THEN fail_open(st)
    ELSE IF parsed_language(outcome) = "null" THEN fail_open(st)
    ELSE LET parsed == [st EXCEPT
                 !.user_language = parsed_language(outcome),
                 !.is_followup = (dict_get(outcome.is_followup, "false") = "true"),
                 !.is_ecommerce_query = (dict_get(outcome.is_ecommerce, "true") = "true"),
                 !.skip_retrieval = (dict_get(outcome.is_followup, "false") = "true")]
         IN IF Lower(parsed.user_language) # "english"
            THEN IF translation = Raised
                 THEN fail_open(st)
                 ELSE [parsed EXCEPT !.english_query = Strip(translation)]
            ELSE [parsed EXCEPT !.english_query = st.user_query])

\* variant: a missing is_ecommerce counts as false
guardrail_check_node_strict_default(st, outcome, translation) ==
    Returns(
    IF outcome.kind # "object" THEN fail_open(st)
    ELSE LET parsed == [st EXCEPT
                 !.user_language = parsed_language(outcome),
                 !.is_followup = (dict_get(outcome.is_followup, "false") = "true"),
                 !.is_ecommerce_query = (dict_get(outcome.is_ecommerce, "false") = "true"),
                 !.skip_retrieval = (dict_get(outcome.is_followup, "false") = "true")]
         IN IF parsed.user_language = "null" THEN fail_open(parsed)
            ELSE IF Lower(parsed.user_language) # "english"
            THEN IF translation = Raised
                 THEN [parsed EXCEPT !.english_query = st.user_query]
                 ELSE [parsed EXCEPT !.english_query = Strip(translation)]
            ELSE [parsed EXCEPT !.english_query = st.user_query])

\* the state the node returns, for a classification outcome and a translation outcome
guardrail_check_node(st, outcome, translation) ==
    Returns(
    IF outcome.kind # "object" THEN fail_open(st)
    ELSE LET parsed == [st EXCEPT
                 !.user_language = parsed_language(outcome),
                 !.is_followup = (dict_get(outcome.is_followup, "false") = "true"),
                 !.is_ecommerce_query = (dict_get(outcome.is_ecommerce, "true") = "true"),
                 !.skip_retrieval = (dict_get(outcome.is_followup, "false") = "true")]
         IN IF parsed.user_language = "null" THEN fail_open(parsed)
            ELSE IF Lower(parsed.user_language) # "english"
            THEN IF translation = Raised
                 THEN [parsed EXCEPT !.english_query = st.user_query]
                 ELSE [parsed EXCEPT !.english_query = Strip(translation)]
            ELSE [parsed EXCEPT !.english_query = st.user_query])

\* variant: the follow-up test comes before the e-commerce test
route_after_guardrail_followup_first(st) ==
    IF st.skip_retrieval \/ st.is_followup THEN "direct_response"
    ELSE IF ~st.is_ecommerce_query THEN "reject"
    ELSE "retrieve"

\* route_after_guardrail
route_after_guardrail(st) ==
    IF ~st.is_ecommerce_query THEN "reject"
    ELSE IF st.skip_retrieval \/ st.is_followup THEN "direct_response"
    ELSE "retrieve"

\* the conditional edges of _build_graph
conditional_edges(route) ==
    CASE route = "retrieve" -> "retrieve_knowledge"
      [] route = "direct_response" -> "generate_response"
      [] route = "reject" -> "reject_query"

\* variant: the working state is kept per user, so that a request that starts
\* replaces the working state of the user's request in flight
Start_state_per_user(r, users, messages) ==
    /\ pc[r] = "idle"
    /\ turns < MaxTurns
    /\ \E user_id \in users, message \in messages :
          /\ request' = [request EXCEPT ![r] = chatbot_request(message, user_id)]
          /\ state' = [q \in DOMAIN state |->
                IF q = r \/ (pc[q] \notin {"idle", "off"} /\ request[q].user_id = user_id)
                THEN initial_state(message, user_id)
                ELSE state[q]]
          /\ session' = [session EXCEPT ![r] =
                [NoSession EXCEPT !.start = [history |-> historyStore[user_id],
                                            handle |-> convStore[user_id]]]]
    /\ pc' = [pc EXCEPT ![r] = "guardrail_check"]
    /\ turns' = turns + 1
    /\ lastOp' = NoOp
    /\ UNCHANGED <<knowledge, skeleton, reply, historyStore, convStore, cls, path, calls>>

\* chat, up to graph.invoke: the initial state enters the graph
Start(r, users, messages) ==
    /\ pc[r] = "idle"
    /\ turns < MaxTurns
    /\ \E user_id \in users, message \in messages :
          /\ request' = [request EXCEPT ![r] = chatbot_request(message, user_id)]
          /\ state' = [state EXCEPT ![r] = initial_state(message, user_id)]
          /\ session' = [session EXCEPT ![r] =
                [NoSession EXCEPT !.start = [history |-> historyStore[user_id],
                                            handle |-> convStore[user_id]]]]
    /\ pc' = [pc EXCEPT ![r] = "guardrail_check"]
    /\ turns' = turns + 1
    /\ lastOp' = NoOp
    /\ UNCHANGED <<knowledge, skeleton, reply, historyStore, convStore, cls, path, calls>>

\* variant: a classification call that raises is made again
GuardrailCheck_retries(r, outcomes) ==
    /\ pc[r] = "guardrail_check"
    /\ \E outcome \in outcomes :
       \E translation \in (IF translates_query(outcome) THEN QueryTranslations ELSE {NotCalled}) :
          LET result == guardrail_check_node(state[r], outcome, translation)
          IN
          /\ state' = [state EXCEPT ![r] = IF outcome.kind = "raise" THEN @ ELSE result.state]
          /\ pc' = [pc EXCEPT ![r] =
                IF outcome.kind = "raise" THEN "guardrail_check"
                ELSE after_node(result, conditional_edges(route_after_guardrail(result.state)))]
          /\ cls' = [cls EXCEPT ![r] = outcome]
          /\ calls' = [calls EXCEPT
                ![r].classify = Append(@, combined_prompt(
                                   get_history(historyStore, state[r].user_id),
                                   state[r].user_query)),
                ![r].translate_query = IF translation = NotCalled THEN @ ELSE @ + 1,
                ![r].query_translation = IF translation \in {NotCalled, Raised}
                                         THEN translation ELSE "returned"]
    /\ path' = [path EXCEPT ![r] = IF Len(calls'[r].classify) > 1 THEN @ ELSE Append(@, "guardrail_check")]
    /\ lastOp' = NoOp
    /\ UNCHANGED <<knowledge, skeleton, request, reply, historyStore, convStore, turns, session>>

\* the guardrail node and the conditional edge after it
GuardrailCheck(r, outcomes) ==
    /\ pc[r] = "guardrail_check"
    /\ \E outcome \in outcomes :
       \E translation \in (IF translates_query(outcome) THEN QueryTranslations ELSE {NotCalled}) :
          LET result == guardrail_check_node(state[r], outcome, translation)
          IN
          /\ state' = [state EXCEPT ![r] = result.state]
          /\ pc' = [pc EXCEPT ![r] =
                after_node(result, conditional_edges(route_after_guardrail(result.state)))]
          /\ cls' = [cls EXCEPT ![r] = outcome]
          /\ calls' = [calls EXCEPT
                ![r].classify = Append(@, combined_prompt(
                                   get_history(historyStore, state[r].user_id),
                                   state[r].user_query)),
                ![r].translate_query = IF translation = NotCalled THEN @ ELSE @ + 1,
                ![r].query_translation = IF translation \in {NotCalled, Raised}
                                         THEN translation ELSE "returned"]
    /\ path' = [path EXCEPT ![r] = Append(@, "guardrail_check")]
    /\ lastOp' = NoOp
    /\ UNCHANGED <<knowledge, skeleton, request, reply, historyStore, convStore, turns, session>>

\* ------------------------------------------------------------------------
\* retrieve_knowledge_node
\* ------------------------------------------------------------------------

\* n_results of the four searches
n_results(source) == IF source \in {"products", "services"} THEN 3 ELSE 2

\* the ranked matches of a collection for a query
Ranked(source) == <<source \o "#1", source \o "#2", source \o "#3">>

\* search_products / search_services / search_consultations / search_specialists:
\* the manager returns the matches, and an empty list when the backend raises
search(source, backend, query, limit) ==
    CASE backend = "hits" -> [raised |-> FALSE, results |-> FirstN(Ranked(source), limit)]
      [] backend = "empty" -> [raised |-> FALSE, results |-> <<>>]
      [] backend = "raise" -> [raised |-> FALSE, results |-> <<>>]

\* the snippet the node formats from one search result
snippet(source, result) ==
    CASE source \in {"products", "services"} -> result \o " - $price - description"
      [] source = "consultations" -> result \o " - $price (duration min)"
      [] source = "specialists" -> result \o " - experience (Rating: rating)"

\* the metadata key of a source's error note
error_key(source) ==
    CASE source = "products" -> "product_error"
      [] source = "services" -> "service_error"
      [] source = "consultations" -> "consultation_error"
      [] source = "specialists" -> "specialist_error"

\* dict[key] = value, keeping the insertion order of a new key
dict_set(dict, key, value) ==
    IF \E i \in 1..Len(dict) : dict[i].key = key
    THEN [i \in 1..Len(dict) |-> IF dict[i].key = key THEN [key |-> key, value |-> value] ELSE dict[i]]
    ELSE Append(dict, [key |-> key, value |-> value])

\* the keys of a dictionary
dict_keys(dict) == {dict[i].key : i \in 1..Len(dict)}

\* variant: a source without matches ends the node's work on the contexts
retrieve_one_clears(st, source, backend) ==
    LET found == search(source, backend, st.english_query, n_results(source))
    IN IF found.results # <<>>
       THEN [st EXCEPT !.retrieved_contexts =
                dict_set(@, source, [i \in 1..Len(found.results) |-> snippet(source, found.results[i])])]
       ELSE [st EXCEPT !.retrieved_contexts = <<>>]

\* variant: the snippets are stored without the test on the result
retrieve_one_always_stores(st, source, backend) ==
    LET found == search(source, backend, st.english_query, n_results(source))
    IN IF found.raised
       THEN [st EXCEPT !.metadata = dict_set(@, error_key(source), "search error")]
       ELSE [st EXCEPT !.retrieved_contexts =
                dict_set(@, source, [i \in 1..Len(found.results) |-> snippet(source, found.results[i])])]

\* one try block of the node: query one source, keep its snippets if any
retrieve_one(st, source, backend) ==
    LET found == search(source, backend, st.english_query, n_results(source))
    IN IF found.raised
       THEN [st EXCEPT !.metadata = dict_set(@, error_key(source), "search error")]
       ELSE IF found.results # <<>>
       THEN [st EXCEPT !.retrieved_contexts =
                dict_set(@, source, [i \in 1..Len(found.results) |-> snippet(source, found.results[i])])]
       ELSE st

RECURSIVE retrieve_from(_, _, _)
\* the node from the i-th source on
retrieve_from(st, i, backends) ==
    IF i > Len(SourceOrder) THEN st
    ELSE retrieve_from(retrieve_one(st, SourceOrder[i], backends[SourceOrder[i]]), i + 1, backends)

\* the state the node returns, for the outcomes of the four backends
retrieve_knowledge_node(st, backends) == Returns(retrieve_from(st, 1, backends))

\* one search as the manager receives it
search_call(source, query) == [source |-> source, query |-> query, limit |-> n_results(source)]

RECURSIVE searches_from(_, _, _)
\* the searches the node issues from the i-th source on: one in each try
\* block, with the query read when the node was entered
searches_from(query, i, backends) ==
    IF i > Len(SourceOrder) THEN <<>>
    ELSE <<search_call(SourceOrder[i], query)>> \o searches_from(query, i + 1, backends)

RECURSIVE searches_until_failure(_, _, _)
\* variant: a backend that raises ends the fan-out
searches_until_failure(query, i, backends) ==
    IF i > Len(SourceOrder) THEN <<>>
    ELSE IF backends[SourceOrder[i]] = "raise" THEN <<search_call(SourceOrder[i], query)>>
    ELSE <<search_call(SourceOrder[i], query)>> \o searches_until_failure(query, i + 1, backends)

\* variant: the searches stop at the first source that fails
search_calls_until_failure(st, backends) == searches_until_failure(st.english_query, 1, backends)

\* the searches the node issues
search_calls(st, backends) == searches_from(st.english_query, 1, backends)

\* variant: the graph ends after the retrieval
RetrieveKnowledge_to_end(r, outcomes) ==
    /\ pc[r] = "retrieve_knowledge"
    /\ \E backends \in outcomes :
          LET result == retrieve_knowledge_node(state[r], backends)
          IN
          /\ state' = [state EXCEPT ![r] = result.state]
          /\ pc' = [pc EXCEPT ![r] = after_node(result, "update_history")]
          /\ calls' = [calls EXCEPT ![r].search = search_calls(state[r], backends),
                                    ![r].backends = backends]
    /\ path' = [path EXCEPT ![r] = Append(@, "retrieve_knowledge")]
    /\ lastOp' = NoOp
    /\ UNCHANGED <<knowledge, skeleton, request, reply, historyStore, convStore, cls, turns, session>>

RetrieveKnowledge(r, outcomes) ==
    /\ pc[r] = "retrieve_knowledge"
    /\ \E backends \in outcomes :
          LET result == retrieve_knowledge_node(state[r], backends)
          IN
          /\ state' = [state EXCEPT ![r] = result.state]
          /\ pc' = [pc EXCEPT ![r] = after_node(result, "generate_response")]
          /\ calls' = [calls EXCEPT ![r].search = search_calls(state[r], backends),
                                    ![r].backends = backends]
    /\ path' = [path EXCEPT ![r] = Append(@, "retrieve_knowledge")]
    /\ lastOp' = NoOp
    /\ UNCHANGED <<knowledge, skeleton, request, reply, historyStore, convStore, cls, turns, session>>

\* ------------------------------------------------------------------------
\* AbacusAIClient.get_conversation_response and generate_response_node
\* ------------------------------------------------------------------------

\* the four shapes of a result of evaluate_prompt
sdk_answer(sdk) ==
    CASE sdk \in {"content", "response", "str"} -> "answer"
      [] sdk = "other" -> "<LlmResponse object>"

\* variant: a successful call opens a conversation and returns its id
get_conversation_response_opens_conversation(sdk, message, conversation_id) ==
    CASE sdk \in {"no_client", "raise", "content_none"} ->
            [answer |-> "", conversation_id |-> conversation_id, success |-> FALSE,
             error |-> "evaluate_prompt error"]
      [] OTHER ->
            [answer |-> sdk_answer(sdk), conversation_id |-> "conv-new", success |-> TRUE,
             error |-> None]

\* AbacusAIClient.get_conversation_response
get_conversation_response(sdk, message, conversation_id) ==
    CASE sdk = "no_client" ->
            [answer |-> "", conversation_id |-> conversation_id, success |-> FALSE,
             error |-> "Abacus client not initialized"]
      [] sdk = "raise" ->
            [answer |-> "", conversation_id |-> conversation_id, success |-> FALSE,
             error |-> "evaluate_prompt error"]
      [] sdk = "content_none" ->
            [answer |-> "", conversation_id |-> conversation_id, success |-> FALSE,
             error |-> "object of type 'NoneType' has no len()"]
      [] OTHER ->
            [answer |-> sdk_answer(sdk), conversation_id |-> conversation_id, success |-> TRUE,
             error |-> None]

\* variant: the blocks are in the reverse of the order of the dictionary
context_parts_reversed(retrieved_contexts) ==
    LET kept == SelectSeq(retrieved_contexts, LAMBDA entry : entry.value # <<>>)
    IN [i \in 1..Len(kept) |->
          Upper(kept[Len(kept) + 1 - i].key) \o ":\n" \o JoinWith(kept[Len(kept) + 1 - i].value, "\n")]

\* one block per source with snippets: "SOURCE:\n" and its snippets
context_parts(retrieved_contexts) ==
    LET kept == SelectSeq(retrieved_contexts, LAMBDA entry : entry.value # <<>>)
    IN [i \in 1..Len(kept) |-> Upper(kept[i].key) \o ":\n" \o JoinWith(kept[i].value, "\n")]

\* combined_context
combined_context(retrieved_contexts) == JoinWith(context_parts(retrieved_contexts), "\n\n")

\* variant: the prompt carries the query used for retrieval
prompt_parts_english_query(st, history) ==
    (IF history_context(history) # ""
        THEN <<"Previous conversation:\n" \o history_context(history) \o "\n">> ELSE <<>>)
    \o (IF combined_context(st.retrieved_contexts) # ""
        THEN <<"Relevant information from our database:\n"
               \o combined_context(st.retrieved_contexts) \o "\n">> ELSE <<>>)
    \o <<"Current user query: " \o st.english_query \o "\n",
         "IMPORTANT: The user is communicating in " \o st.user_language
           \o ". You MUST respond in " \o st.user_language \o " language.",
         "Please provide a helpful, friendly response based on the context and conversation history.">>

\* prompt_parts of the generation
prompt_parts(st, history) ==
    (IF history_context(history) # ""
        THEN <<"Previous conversation:\n" \o history_context(history) \o "\n">> ELSE <<>>)
    \o (IF combined_context(st.retrieved_contexts) # ""
        THEN <<"Relevant information from our database:\n"
               \o combined_context(st.retrieved_contexts) \o "\n">> ELSE <<>>)
    \o <<"Current user query: " \o st.user_query \o "\n",
         "IMPORTANT: The user is communicating in " \o st.user_language
           \o ". You MUST respond in " \o st.user_language \o " language.",
         "Please provide a helpful, friendly response based on the context and conversation history.">>

\* full_message
full_message(st, history) == JoinWith(prompt_parts(st, history), "\n")

\* variant: the answer of the result is used whatever its success flag
generate_response_node_uses_answer(st, result) ==
    Returns([st EXCEPT !.final_response = result.answer])

\* the state the node returns for a result of the Abacus client
generate_response_node(st, result) ==
    Returns(
    IF result.success
    THEN [st EXCEPT !.final_response = result.answer]
    ELSE [st EXCEPT !.final_response = ApologyMessage,
                    !.metadata = dict_set(@, "error", result.error)])

\* variant: the conversation id of a successful result is stored untested
stores_conversation_id_untested(result) == result.success

\* whether the node stores the conversation id of a result
stores_conversation_id(result) ==
    result.success /\ result.conversation_id # None /\ result.conversation_id # ""

GenerateResponse(r, sdks) ==
    /\ pc[r] = "generate_response"
    /\ \E redisGet \in RedisOutcomes, sdk \in sdks :
       LET st == state[r]
           history == get_history(historyStore, st.user_id)
           conversation_id == get_conversation_id(redisGet, convStore, st.user_id)
           message == full_message(st, history)
           result == get_conversation_response(sdk, message, conversation_id)
           returned == generate_response_node(st, result)
       IN /\ state' = [state EXCEPT ![r] = returned.state]
          /\ pc' = [pc EXCEPT ![r] = after_node(returned, "update_history")]
          /\ calls' = [calls EXCEPT ![r].generate =
                          Append(@, [prompt_parts |-> prompt_parts(st, history),
                                     conversation_history |-> history_context(history),
                                     message |-> message,
                                     conversation_id |-> conversation_id,
                                     result |-> result])]
          /\ IF stores_conversation_id(result)
             THEN \E redisSet \in RedisOutcomes :
                    /\ convStore' = set_conversation_id(redisSet, convStore, st.user_id,
                                                        result.conversation_id)
                    /\ lastOp' = [op |-> "set_conversation_id", user |-> st.user_id,
                                  value |-> <<result.conversation_id>>,
                                  served |-> (redisSet = "ok" /\ st.user_id # "")]
                    /\ session' = [session EXCEPT ![r].writes =
                                      IF redisSet = "ok" /\ st.user_id # ""
                                      THEN Append(@, "set_conversation_id") ELSE @]
             ELSE /\ convStore' = convStore
                  /\ lastOp' = NoOp
                  /\ session' = session
    /\ path' = [path EXCEPT ![r] = Append(@, "generate_response")]
    /\ UNCHANGED <<knowledge, skeleton, request, reply, historyStore, cls, turns>>

\* ------------------------------------------------------------------------
\* reject_query_node
\* ------------------------------------------------------------------------

\* the state the node returns, for the outcome of the translation call
reject_query_node(st, translation) ==
    Returns(
    IF Lower(st.user_language) # "english"
    THEN IF translation = Raised
         THEN [st EXCEPT !.final_response = rejection_message]
         ELSE [st EXCEPT !.final_response = translation]
    ELSE [st EXCEPT !.final_response = rejection_message])

\* variant: the rejection deletes the stored conversation id of the user
RejectQuery_drops_handle(r) ==
    /\ pc[r] = "reject_query"
    /\ \E translation \in (IF Lower(state[r].user_language) # "english"
                           THEN RejectTranslations(state[r].user_language) ELSE {NotCalled}) :
          LET result == reject_query_node(state[r], translation)
          IN
          /\ state' = [state EXCEPT ![r] = result.state]
          /\ pc' = [pc EXCEPT ![r] = after_node(result, "update_history")]
          /\ calls' = [calls EXCEPT ![r].translate_reject =
                          IF translation = NotCalled THEN @ ELSE @ + 1,
                                    ![r].reject_translation = translation]
    /\ path' = [path EXCEPT ![r] = Append(@, "reject_query")]
    /\ convStore' = [convStore EXCEPT ![state[r].user_id] = NoKey]
    /\ lastOp' = NoOp
    /\ UNCHANGED <<knowledge, skeleton, request, reply, historyStore, cls, turns, session>>

RejectQuery(r) ==
    /\ pc[r] = "reject_query"
    /\ \E translation \in (IF Lower(state[r].user_language) # "english"
                           THEN RejectTranslations(state[r].user_language) ELSE {NotCalled}) :
          LET result == reject_query_node(state[r], translation)
          IN
          /\ state' = [state EXCEPT ![r] = result.state]
          /\ pc' = [pc EXCEPT ![r] = after_node(result, "update_history")]
          /\ calls' = [calls EXCEPT ![r].translate_reject =
                          IF translation = NotCalled THEN @ ELSE @ + 1,
                                    ![r].reject_translation = translation]
    /\ path' = [path EXCEPT ![r] = Append(@, "reject_query")]
    /\ lastOp' = NoOp
    /\ UNCHANGED <<knowledge, skeleton, request, reply, historyStore, convStore, cls, turns, session>>

\* ------------------------------------------------------------------------
\* chat, after graph.invoke: update the history, return the response
\* ------------------------------------------------------------------------

\* variant: the query recorded is the one used for retrieval
UpdateHistory_records_english_query(r) ==
    /\ pc[r] = "update_history"
    /\ historyStore' = update_history(historyStore, request[r].user_id,
                                      state[r].english_query, state[r].final_response)
    /\ reply' = [reply EXCEPT ![r] = state[r].final_response]
    /\ lastOp' = [op |-> "update_history", user |-> request[r].user_id,
                  value |-> TruncateHistory(Append(get_history(historyStore, request[r].user_id),
                                Exchange(state[r].english_query, state[r].final_response))),
                  served |-> TRUE]
    /\ pc' = [pc EXCEPT ![r] = "done"]
    /\ session' = [session EXCEPT ![r].writes = Append(@, "update_history")]
    /\ UNCHANGED <<knowledge, skeleton, request, state, convStore, cls, path, calls, turns>>

UpdateHistory(r) ==
    /\ pc[r] = "update_history"
    /\ historyStore' = update_history(historyStore, request[r].user_id,
                                      request[r].message, state[r].final_response)
    /\ reply' = [reply EXCEPT ![r] = state[r].final_response]
    /\ lastOp' = [op |-> "update_history", user |-> request[r].user_id,
                  value |-> TruncateHistory(Append(get_history(historyStore, request[r].user_id),
                                Exchange(request[r].message, state[r].final_response))),
                  served |-> TRUE]
    /\ pc' = [pc EXCEPT ![r] = "done"]
    /\ session' = [session EXCEPT ![r].writes = Append(@, "update_history")]
    /\ UNCHANGED <<knowledge, skeleton, request, state, convStore, cls, path, calls, turns>>

\* the next request of the caller: chat builds a fresh state
NextTurn(r) ==
    /\ pc[r] = "done"
    /\ turns < MaxTurns
    /\ pc' = [pc EXCEPT ![r] = "idle"]
    /\ request' = [request EXCEPT ![r] = chatbot_request("", "")]
    /\ state' = [state EXCEPT ![r] = initial_state("", "")]
    /\ reply' = [reply EXCEPT ![r] = None]
    /\ cls' = [cls EXCEPT ![r] = NoCls]
    /\ path' = [path EXCEPT ![r] = <<>>]
    /\ calls' = [calls EXCEPT ![r] = NoCalls]
    /\ session' = [session EXCEPT ![r] = NoSession]
    /\ lastOp' = NoOp
    /\ UNCHANGED <<knowledge, skeleton, historyStore, convStore, turns>>

\* ------------------------------------------------------------------------
\* Expiry of the stored entries, overlapping requests, abandoned requests
\* ------------------------------------------------------------------------

\* no request is being served
Quiet == \A r \in Reqs : pc[r] \in {"idle", "off"}

\* the time to live given to setex runs out while the user is away: Redis
\* drops the key abacus_conversation:{user_id}
ExpireHandle(u) ==
    /\ Quiet
    /\ convStore[u] # NoKey
    /\ convStore' = [convStore EXCEPT ![u] = NoKey]
    /\ lastOp' = [op |-> "expire_handle", user |-> u, value |-> <<>>, served |-> TRUE]
    /\ UNCHANGED <<knowledge, skeleton, pc, request, state, reply, historyStore, cls, path, calls, turns, session>>

\* the time to live of the user's history runs out while the user is away
ExpireHistory(u) ==
    /\ Quiet
    /\ historyStore[u] # <<>>
    /\ historyStore' = [historyStore EXCEPT ![u] = <<>>]
    /\ lastOp' = [op |-> "expire_history", user |-> u, value |-> <<>>, served |-> TRUE]
    /\ UNCHANGED <<knowledge, skeleton, pc, request, state, reply, convStore, cls, path, calls, turns, session>>

\* variant: the save reads the stored history again and appends to it
save_history_rereads(store, user_id, loaded, new_message, new_response) ==
    [store EXCEPT ![user_id] =
        DumpHistory(TruncateHistory(Append(get_history(store, user_id),
                                           Exchange(new_message, new_response))))]

\* cache_manager.update_history, second half: the history loaded, with the
\* new exchange, is written back under the user id
save_history(store, user_id, loaded, new_message, new_response) ==
    [store EXCEPT ![user_id] =
        DumpHistory(TruncateHistory(Append(loaded, Exchange(new_message, new_response))))]

\* cache_manager.update_history, first half: the stored history is loaded
LoadSession(r) ==
    /\ pc[r] = "update_history"
    /\ session' = [session EXCEPT ![r].loaded = TRUE,
                                  ![r].history = get_history(historyStore, request[r].user_id)]
    /\ pc' = [pc EXCEPT ![r] = "save_history"]
    /\ lastOp' = NoOp
    /\ UNCHANGED <<knowledge, skeleton, request, state, reply, historyStore, convStore, cls, path, calls, turns>>

\* the write of update_history, then chat returns the response
SaveSession(r) ==
    /\ pc[r] = "save_history"
    /\ historyStore' = save_history(historyStore, request[r].user_id, session[r].history,
                                    request[r].message, state[r].final_response)
    /\ reply' = [reply EXCEPT ![r] = state[r].final_response]
    /\ lastOp' = [op |-> "update_history", user |-> request[r].user_id,
                  value |-> TruncateHistory(Append(session[r].history,
                                Exchange(request[r].message, state[r].final_response))),
                  served |-> TRUE]
    /\ pc' = [pc EXCEPT ![r] = "done"]
    /\ session' = [session EXCEPT ![r].writes = Append(@, "update_history")]
    /\ UNCHANGED <<knowledge, skeleton, request, state, convStore, cls, path, calls, turns>>

\* the steps of chat between which a request can stop
InFlight == Nodes \cup {"update_history", "save_history"}

\* the request stops before chat returns (the worker is stopped, or an
\* exception leaves chat): nothing is undone
Abandon(r) ==
    /\ pc[r] \in InFlight
    /\ pc' = [pc EXCEPT ![r] = "abandoned"]
    /\ lastOp' = NoOp
    /\ UNCHANGED <<knowledge, skeleton, request, state, reply, historyStore, convStore, cls, path, calls, turns,
                   session>>

\* ------------------------------------------------------------------------
\* The knowledge managers (product_knowledge.py, service_knowledge.py,
\* consultation_knowledge.py, specialist_knowledge.py) over the collections
\* of the vector database. An entity is its id, its name and its tags; the
\* other declared fields are carried the same way and are left out.
\* ------------------------------------------------------------------------

KnowledgeIds == {"e1", "e2"}

\* n_results of a search and limit of a listing: the routes ask for 1 or more
ListLimits == {1, 2}
EntityNames == {"n1", "n2"}
TagLists == {<<>>, <<"t1", "t2">>}

\* the fields the schema of a source declares
SchemaFields(source) ==
    CASE source = "products" ->
            {"product_id", "name", "description", "price", "category", "subcategory", "type",
             "stock_quantity", "discount", "tags", "about"}
      [] source = "services" ->
            {"service_id", "name", "description", "price", "category", "duration", "total_slot",
             "location", "tags", "start_time", "end_time", "service_type"}
      [] source = "consultations" ->
            {"consultation_id", "name", "description", "price", "category", "duration", "title",
             "consultation_time", "experience", "type"}
      [] source = "specialists" ->
            {"specialist_id", "name", "description", "price", "category", "duration", "title",
             "specialist_time", "experience", "type", "rating"}

\* the schema-valid entities of a source: tags only where the schema has them
Entities(source) ==
    {e \in [id : KnowledgeIds, name : EntityNames, tags : TagLists] :
        "tags" \in SchemaFields(source) \/ e.tags = <<>>}

\* the attributes of the entity that _create_searchable_text reads
TextFields(source) ==
    CASE source = "products" ->
            {"name", "description", "category", "subcategory", "type", "tags", "about", "price",
             "discount", "stock_quantity", "availability"}
      [] source = "services" ->
            {"name", "description", "category", "service_type", "location", "tags", "price",
             "duration", "total_slot", "availability"}
      [] source = "consultations" ->
            {"name", "title", "description", "category", "type", "experience", "price", "duration"}
      [] source = "specialists" ->
            {"name", "title", "description", "category", "type", "experience", "rating", "price",
             "duration", "availability"}

\* the label that opens the searchable text
TextLabel(source) ==
    CASE source = "products" -> "Product"
      [] source = "services" -> "Service"
      [] source = "consultations" -> "Consultant"
      [] source = "specialists" -> "Specialist"

\* _create_searchable_text: reading an attribute the model class does not
\* declare raises AttributeError
create_searchable_text(source, entity) ==
    IF TextFields(source) \subseteq SchemaFields(source)
    THEN [raised |-> FALSE,
          text |-> JoinWith(<<TextLabel(source) \o ": " \o entity.name>> \o
                            (IF entity.tags # <<>> THEN <<"Tags: " \o JoinWith(entity.tags, ", ")>>
                             ELSE <<>>), " | ")]
    ELSE [raised |-> TRUE, text |-> ""]

\* flatten_metadata: a list becomes its elements joined by ", "
flatten_metadata(entity) ==
    [id |-> entity.id, name |-> entity.name, tags |-> JoinWith(entity.tags, ", ")]

\* Optional[Dict]: None, or a dictionary
Nothing == <<>>
Some(dict) == <<dict>>

\* OperationResponse
OperationResponse(success, data, error) == [success |-> success, data |-> data, error |-> error]

\* the entries of a collection under an id
Stored(collection, id) == {entry \in collection : entry.id = id}

\* add_product, add_service, add_consultation, add_specialist; the backend
\* answers or raises, and keeps the entry it has when the id is known
add_entity(source, collection, entity, backend) ==
    LET searchable_text == create_searchable_text(source, entity)
    IN IF searchable_text.raised
       THEN [collection |-> collection, raised |-> FALSE,
             response |-> OperationResponse(FALSE, Nothing, "AttributeError")]
       ELSE IF backend = "raise"
       THEN [collection |-> collection, raised |-> FALSE,
             response |-> OperationResponse(FALSE, Nothing, "backend error")]
       ELSE [collection |->
                IF Stored(collection, entity.id) # {} THEN collection
                ELSE collection \cup {[id |-> entity.id, document |-> searchable_text.text,
                                       metadata |-> flatten_metadata(entity)]},
             raised |-> FALSE,
             response |-> OperationResponse(TRUE, Some(entity.id), "")]

\* variant: update_product and its likes without the except clause
update_entity_unguarded(source, collection, id, entity, backend) ==
    LET searchable_text == create_searchable_text(source, entity)
    IN IF searchable_text.raised \/ backend = "raise"
       THEN [collection |-> collection, raised |-> TRUE,
             response |-> OperationResponse(FALSE, Nothing, "")]
       ELSE [collection |->
                IF Stored(collection, id) = {} THEN collection
                ELSE (collection \ Stored(collection, id))
                        \cup {[id |-> id, document |-> searchable_text.text,
                               metadata |-> flatten_metadata(entity)]},
             raised |-> FALSE,
             response |-> OperationResponse(TRUE, Some(id), "")]

\* update_product and its three likes: the entry under the id given gets the
\* text and the metadata of the entity; the backend leaves an unknown id alone
update_entity(source, collection, id, entity, backend) ==
    LET searchable_text == create_searchable_text(source, entity)
    IN IF searchable_text.raised
       THEN [collection |-> collection, raised |-> FALSE,
             response |-> OperationResponse(FALSE, Nothing, "AttributeError")]
       ELSE IF backend = "raise"
       THEN [collection |-> collection, raised |-> FALSE,
             response |-> OperationResponse(FALSE, Nothing, "backend error")]
       ELSE [collection |->
                IF Stored(collection, id) = {} THEN collection
                ELSE (collection \ Stored(collection, id))
                        \cup {[id |-> id, document |-> searchable_text.text,
                               metadata |-> flatten_metadata(entity)]},
             raised |-> FALSE,
             response |-> OperationResponse(TRUE, Some(id), "")]

\* get_product_by_id and its three likes
get_entity_by_id(collection, id, backend) ==
    IF backend = "raise" THEN Nothing
    ELSE LET metadatas == {entry.metadata : entry \in Stored(collection, id)}
         IN IF metadatas # {} THEN Some(CHOOSE m \in metadatas : TRUE) ELSE Nothing

\* delete_product and its three likes
delete_entity(collection, id, backend) ==
    IF backend = "raise"
    THEN [collection |-> collection, raised |-> FALSE,
          response |-> OperationResponse(FALSE, Nothing, "backend error")]
    ELSE [collection |-> collection \ Stored(collection, id), raised |-> FALSE,
          response |-> OperationResponse(TRUE, Some(id), "")]

\* the entries the backend hands back for a limit, in the order it has them
RECURSIVE first_entries(_, _)
first_entries(collection, limit) ==
    IF limit = 0 \/ collection = {} THEN <<>>
    ELSE LET entry == CHOOSE e \in collection : TRUE
         IN <<entry>> \o first_entries(collection \ {entry}, limit - 1)

\* search_products and its three likes: one SearchResult (id, data) per
\* entry the query of the collection returns; [] when the query raises
search_entities(collection, limit, backend) ==
    IF backend = "raise" THEN <<>>
    ELSE LET found == first_entries(collection, limit)
         IN [i \in 1..Len(found) |-> [id |-> found[i].id, data |-> found[i].metadata]]

\* get_all_products and its three likes
get_all_entities(collection, limit, backend) ==
    IF backend = "raise" THEN <<>>
    ELSE LET found == first_entries(collection, limit)
         IN [i \in 1..Len(found) |-> [id |-> found[i].id, data |-> found[i].metadata]]

\* no operation of a manager yet
NoKnowledgeOp ==
    [op |-> "none", source |-> "", id |-> "", entity |-> Nothing, was_stored |-> FALSE,
     backend |-> "", response |-> OperationResponse(FALSE, Nothing, ""), returned |-> Nothing,
     raised |-> FALSE, limit |-> 0, results |-> <<>>]

\* empty collections, as get_or_create_collection makes them
NoKnowledge == [collection |-> [source \in Sources |-> {}], op |-> NoKnowledgeOp]

AddEntity(source, entities, backends) ==
    /\ \E entity \in entities, backend \in backends :
          LET result == add_entity(source, knowledge.collection[source], entity, backend)
          IN knowledge' =
                [collection |-> [knowledge.collection EXCEPT ![source] = result.collection],
                 op |-> [NoKnowledgeOp EXCEPT
                            !.op = "add", !.source = source, !.id = entity.id,
                            !.entity = Some(entity),
                            !.was_stored = Stored(knowledge.collection[source], entity.id) # {},
                            !.backend = backend, !.response = result.response,
                            !.raised = result.raised]]
    /\ UNCHANGED <<pc, request, state, reply, historyStore, convStore, cls, path, calls, lastOp,
                   turns, session, skeleton>>

UpdateEntity(source, ids, entities, backends) ==
    /\ \E id \in ids, entity \in entities, backend \in backends :
          LET result == update_entity(source, knowledge.collection[source], id, entity, backend)
          IN knowledge' =
                [collection |-> [knowledge.collection EXCEPT ![source] = result.collection],
                 op |-> [NoKnowledgeOp EXCEPT
                            !.op = "update", !.source = source, !.id = id,
                            !.entity = Some(entity),
                            !.was_stored = Stored(knowledge.collection[source], id) # {},
                            !.backend = backend, !.response = result.response,
                            !.raised = result.raised]]
    /\ UNCHANGED <<pc, request, state, reply, historyStore, convStore, cls, path, calls, lastOp,
                   turns, session, skeleton>>

SearchEntities(source, limits, backends) ==
    /\ \E limit \in limits, backend \in backends :
          knowledge' =
             [knowledge EXCEPT
                !.op = [NoKnowledgeOp EXCEPT
                           !.op = "search", !.source = source, !.limit = limit,
                           !.backend = backend,
                           !.results = search_entities(knowledge.collection[source], limit,
                                                       backend)]]
    /\ UNCHANGED <<pc, request, state, reply, historyStore, convStore, cls, path, calls, lastOp,
                   turns, session, skeleton>>

GetAllEntities(source, limits, backends) ==
    /\ \E limit \in limits, backend \in backends :
          knowledge' =
             [knowledge EXCEPT
                !.op = [NoKnowledgeOp EXCEPT
                           !.op = "get_all", !.source = source, !.limit = limit,
                           !.backend = backend,
                           !.results = get_all_entities(knowledge.collection[source], limit,
                                                        backend)]]
    /\ UNCHANGED <<pc, request, state, reply, historyStore, convStore, cls, path, calls, lastOp,
                   turns, session, skeleton>>

GetEntityById(source, ids, backends) ==
    /\ \E id \in ids, backend \in backends :
          knowledge' =
             [knowledge EXCEPT
                !.op = [NoKnowledgeOp EXCEPT
                           !.op = "get", !.source = source, !.id = id,
                           !.was_stored = Stored(knowledge.collection[source], id) # {},
                           !.backend = backend,
                           !.returned = get_entity_by_id(knowledge.collection[source], id, backend)]]
    /\ UNCHANGED <<pc, request, state, reply, historyStore, convStore, cls, path, calls, lastOp,
                   turns, session, skeleton>>

DeleteEntity(source, ids, backends) ==
    /\ \E id \in ids, backend \in backends :
          LET result == delete_entity(knowledge.collection[source], id, backend)
          IN knowledge' =
                [collection |-> [knowledge.collection EXCEPT ![source] = result.collection],
                 op |-> [NoKnowledgeOp EXCEPT
                            !.op = "delete", !.source = source, !.id = id,
                            !.was_stored = Stored(knowledge.collection[source], id) # {},
                            !.backend = backend, !.response = result.response,
                            !.raised = result.raised]]
    /\ UNCHANGED <<pc, request, state, reply, historyStore, convStore, cls, path, calls, lastOp,
                   turns, session, skeleton>>

\* ------------------------------------------------------------------------
\* The agent of langgraph_chatbot.py: a guardrail on the domain only, seven
\* retrieval nodes that are placeholders, a generation by the chat model.
\* ------------------------------------------------------------------------

\* the retrieval nodes in the order of the edges that chain them
RetrievalChain ==
    <<"retrieve_products", "retrieve_product_specs", "retrieve_reviews", "retrieve_inventory",
      "retrieve_pricing", "retrieve_shipping", "retrieve_support">>

\* the key under which a retrieval node stores its contexts
context_key(node) ==
    CASE node = "retrieve_products" -> "products"
      [] node = "retrieve_product_specs" -> "product_specs"
      [] node = "retrieve_reviews" -> "reviews"
      [] node = "retrieve_inventory" -> "inventory"
      [] node = "retrieve_pricing" -> "pricing"
      [] node = "retrieve_shipping" -> "shipping"
      [] node = "retrieve_support" -> "support"

\* GuardrailConfig.rejection_message, its first line
config_rejection_message ==
    "I'm an e-commerce assistant designed to help with shopping-related questions. \nI can assist you with: ..."

\* the response of the generation node when the chat model raises
skeleton_apology ==
    "I apologize, but I encountered an error processing your request. Please try again."

\* what guardrail_llm.invoke and json.loads produce: the call raises, the
\* content is no JSON, the JSON is no object, or it is an object that has or
\* lacks the field is_ecommerce
GuardrailOutcomes ==
    {[kind |-> "raise", is_ecommerce |-> "absent"],
     [kind |-> "unparsable", is_ecommerce |-> "absent"],
     [kind |-> "not_object", is_ecommerce |-> "absent"],
     [kind |-> "object", is_ecommerce |-> "true"],
     [kind |-> "object", is_ecommerce |-> "false"],
     [kind |-> "object", is_ecommerce |-> "absent"]}

\* no call of the guardrail model
NoGuardrailCall == [kind |-> "none", is_ecommerce |-> "absent"]

\* request.history as LangChain messages: a human and an AI message per item
history_messages(history) ==
    Flatten([i \in 1..Len(history) |-> <<"Human: " \o history[i].message, "AI: " \o history[i].response>>])

\* initial_state of chat
skeleton_initial_state(message, user_id, history) ==
    [messages |-> history_messages(history),
     user_query |-> message,
     user_id |-> user_id,
     session_id |-> None,
     is_ecommerce_query |-> FALSE,
     guardrail_reason |-> "",
     retrieved_contexts |-> <<>>,
     final_response |-> "",
     metadata |-> <<>>]

\* variant: a response without the field is_ecommerce lets the query pass
skeleton_guardrail_check_node_default_true(st, enabled, outcome) ==
    IF ~enabled
    THEN [st EXCEPT !.is_ecommerce_query = TRUE, !.guardrail_reason = "Guardrail disabled"]
    ELSE IF outcome.kind = "object"
    THEN [st EXCEPT !.is_ecommerce_query = (dict_get(outcome.is_ecommerce, "true") = "true"),
                    !.guardrail_reason = "reason"]
    ELSE [st EXCEPT !.is_ecommerce_query = TRUE, !.guardrail_reason = "Guardrail error"]

\* guardrail_check_node: no call when the guardrail is disabled; the field
\* of the parsed object, False when it is missing; True on any exception
skeleton_guardrail_check_node(st, enabled, outcome) ==
    IF ~enabled
    THEN [st EXCEPT !.is_ecommerce_query = TRUE, !.guardrail_reason = "Guardrail disabled"]
    ELSE IF outcome.kind = "object"
    THEN [st EXCEPT !.is_ecommerce_query = (dict_get(outcome.is_ecommerce, "false") = "true"),
                    !.guardrail_reason = "reason"]
    ELSE [st EXCEPT !.is_ecommerce_query = TRUE, !.guardrail_reason = "Guardrail error"]

\* route_after_guardrail and the conditional edge
skeleton_route_after_guardrail(st) == IF st.is_ecommerce_query THEN "proceed" ELSE "reject"

skeleton_conditional_edges(route) ==
    CASE route = "proceed" -> "retrieve_products"
      [] route = "reject" -> "reject_query"

\* the edge that leaves a retrieval node
chain_edge(node) ==
    LET i == CHOOSE j \in 1..Len(RetrievalChain) : RetrievalChain[j] = node
    IN IF i < Len(RetrievalChain) THEN RetrievalChain[i + 1] ELSE "generate_response"

\* a retrieval node: the placeholder stores an empty list under its key
retrieve_node(st, node) ==
    [st EXCEPT !.retrieved_contexts = dict_set(@, context_key(node), <<>>)]

\* the context of the generation prompt
skeleton_combined_context(st) ==
    LET ctx == st.retrieved_contexts
        filled == SelectSeq(ctx, LAMBDA e : e.value # <<>>)
        parts == [i \in 1..Len(filled) |->
                    Upper(filled[i].key) \o ":\n" \o JoinWith(filled[i].value, "\n")]
    IN IF parts # <<>> THEN JoinWith(parts, "\n\n")
       ELSE "No specific context available."

\* the messages given to response_llm.invoke
skeleton_messages(st) ==
    <<"System: context=" \o skeleton_combined_context(st) \o " query=" \o st.user_query>>
    \o LastN(st.messages, 10)
    \o <<"Human: " \o st.user_query>>

\* generate_response_node: the content of the model's response, or the
\* apology and an error note when the call raises
skeleton_generate_response_node(st, llm) ==
    IF llm = "raise"
    THEN [st EXCEPT !.final_response = skeleton_apology,
                    !.metadata = dict_set(@, "error", "llm error")]
    ELSE [st EXCEPT !.final_response = "answer"]

\* reject_query_node
skeleton_reject_query_node(st) == [st EXCEPT !.final_response = config_rejection_message]

\* the agent before a request
NoSkeleton ==
    [pc |-> "idle", enabled |-> TRUE, state |-> skeleton_initial_state("", "", <<>>),
     guardrail |-> NoGuardrailCall, path |-> <<>>, generate |-> <<>>, reply |-> None]

\* chat, up to graph.invoke; the flag of the configuration is what it is
\* when the request arrives
SkeletonStart(messages, histories) ==
    /\ skeleton.pc \in {"idle", "done"}
    /\ \E message \in messages, history \in histories, enabled \in BOOLEAN :
          skeleton' = [NoSkeleton EXCEPT
                          !.pc = "guardrail_check", !.enabled = enabled,
                          !.state = skeleton_initial_state(message, "u1", history)]
    /\ UNCHANGED <<pc, request, state, reply, historyStore, convStore, cls, path, calls, lastOp,
                   turns, session, knowledge>>

SkeletonGuardrailCheck(outcomes) ==
    /\ skeleton.pc = "guardrail_check"
    /\ \E outcome \in (IF skeleton.enabled THEN outcomes ELSE {NoGuardrailCall}) :
          LET st == skeleton_guardrail_check_node(skeleton.state, skeleton.enabled, outcome)
          IN skeleton' = [skeleton EXCEPT
                             !.state = st,
                             !.guardrail = outcome,
                             !.pc = skeleton_conditional_edges(skeleton_route_after_guardrail(st)),
                             !.path = Append(@, "guardrail_check")]
    /\ UNCHANGED <<pc, request, state, reply, historyStore, convStore, cls, path, calls, lastOp,
                   turns, session, knowledge>>

SkeletonRetrieve(node) ==
    /\ skeleton.pc = node
    /\ skeleton' = [skeleton EXCEPT
                       !.state = retrieve_node(@, node),
                       !.pc = chain_edge(node),
                       !.path = Append(@, node)]
    /\ UNCHANGED <<pc, request, state, reply, historyStore, convStore, cls, path, calls, lastOp,
                   turns, session, knowledge>>

SkeletonGenerateResponse(llms) ==
    /\ skeleton.pc = "generate_response"
    /\ \E llm \in llms :
          skeleton' = [skeleton EXCEPT
                          !.state = skeleton_generate_response_node(@, llm),
                          !.generate = Append(@, skeleton_messages(skeleton.state)),
                          !.pc = "end",
                          !.path = Append(@, "generate_response")]
    /\ UNCHANGED <<pc, request, state, reply, historyStore, convStore, cls, path, calls, lastOp,
                   turns, session, knowledge>>

SkeletonRejectQuery ==
    /\ skeleton.pc = "reject_query"
    /\ skeleton' = [skeleton EXCEPT
                       !.state = skeleton_reject_query_node(@),
                       !.pc = "end",
                       !.path = Append(@, "reject_query")]
    /\ UNCHANGED <<pc, request, state, reply, historyStore, convStore, cls, path, calls, lastOp,
                   turns, session, knowledge>>

\* chat, after graph.invoke: the response is returned
SkeletonReturn ==
    /\ skeleton.pc = "end"
    /\ skeleton' = [skeleton EXCEPT !.pc = "done", !.reply = skeleton.state.final_response]
    /\ UNCHANGED <<pc, request, state, reply, historyStore, convStore, cls, path, calls, lastOp,
                   turns, session, knowledge>>

\* ------------------------------------------------------------------------
\* Specifications
\* ------------------------------------------------------------------------

\* the stores before the request: a user with a full history and a
\* stored conversation id, or no user known to the stores
InitStores ==
    \E known \in BOOLEAN :
        /\ historyStore = [u \in Users |-> IF known /\ u = "u1" THEN DumpHistory(PriorHistory) ELSE <<>>]
        /\ convStore = [u \in Users |-> IF known /\ u = "u1" THEN Encode("conv-1") ELSE NoKey]

InitRequests(active) ==
    /\ pc = [r \in Reqs |-> IF r \in active THEN "idle" ELSE "off"]
    /\ request = [r \in Reqs |-> chatbot_request("", "")]
    /\ state = [r \in Reqs |-> initial_state("", "")]
    /\ reply = [r \in Reqs |-> None]
    /\ cls = [r \in Reqs |-> NoCls]
    /\ path = [r \in Reqs |-> <<>>]
    /\ calls = [r \in Reqs |-> NoCalls]
    /\ lastOp = NoOp
    /\ turns = 0
    /\ session = [r \in Reqs |-> NoSession]
    /\ knowledge = NoKnowledge
    /\ skeleton = NoSkeleton

\* one request, every outcome of every external call
Init == InitStores /\ InitRequests({1})

Next ==
    \E r \in Reqs :
        \/ Start(r, {"u1", ""}, {"m1"})
        \/ GuardrailCheck(r, ClsOutcomes)
        \/ RetrieveKnowledge(r, BackendCombinations)
        \/ GenerateResponse(r, SdkOutcomes)
        \/ RejectQuery(r)
        \/ UpdateHistory(r)

Spec == Init /\ [][Next]_vars

\* several turns of one user, from empty stores; classification reports a
\* follow-up or an out-of-domain query, generation succeeds or fails
HistClsOutcomes ==
    {[kind |-> "object", language |-> "English", is_followup |-> "true", is_ecommerce |-> "true"],
     [kind |-> "object", language |-> "English", is_followup |-> "false", is_ecommerce |-> "false"]}

InitHist ==
    /\ historyStore = [u \in Users |-> <<>>]
    /\ convStore \in {[u \in Users |-> NoKey],
                      [u \in Users |-> IF u = "u1" THEN Encode("conv-1") ELSE NoKey]}
    /\ InitRequests({1})

NextHist ==
    \E r \in Reqs :
        \/ Start(r, {"u1"}, Messages)
        \/ GuardrailCheck(r, HistClsOutcomes)
        \/ GenerateResponse(r, {"content", "raise"})
        \/ RejectQuery(r)
        \/ UpdateHistory(r)
        \/ NextTurn(r)

SpecHist == InitHist /\ [][NextHist]_vars

\* two overlapping requests, of one user or of two; the first user has a
\* stored history and a stored conversation id, which may expire before the
\* requests arrive; the second user is new
InitConc ==
    /\ historyStore = [u \in Users |-> IF u = "u1" THEN DumpHistory(PriorHistory) ELSE <<>>]
    /\ convStore = [u \in Users |-> IF u = "u1" THEN Encode("conv-1") ELSE NoKey]
    /\ InitRequests(Reqs)

NextConc ==
    \/ \E u \in Users : ExpireHandle(u)
    \/ \E u \in Users : ExpireHistory(u)
    \/ Start(1, {"u1"}, {"m1"})
    \/ Start(2, {"u1", "u2"}, Messages)
    \/ \E r \in Reqs :
        \/ GuardrailCheck(r, HistClsOutcomes)
        \/ GenerateResponse(r, {"content", "raise"})
        \/ RejectQuery(r)
        \/ LoadSession(r)
        \/ SaveSession(r)
        \/ Abandon(r)

SpecConc == InitConc /\ [][NextConc]_vars

\* two overlapping requests that may take every route of the graph: the
\* classifications of the overlapping requests and one that asks for
\* retrieval, the sources all answering or all failing
OwnClsOutcomes ==
    HistClsOutcomes \cup
    {[kind |-> "object", language |-> "English", is_followup |-> "false", is_ecommerce |-> "true"]}

OwnBackends == {[s \in Sources |-> "hits"], [s \in Sources |-> "raise"]}

NextOwn ==
    \/ Start(1, {"u1"}, {"m1"})
    \/ Start(2, {"u1", "u2"}, Messages)
    \/ \E r \in Reqs :
        \/ GuardrailCheck(r, OwnClsOutcomes)
        \/ RetrieveKnowledge(r, OwnBackends)
        \/ GenerateResponse(r, {"content", "raise"})
        \/ RejectQuery(r)
        \/ UpdateHistory(r)

SpecOwn == InitConc /\ [][NextOwn]_vars

\* one request of which every call that is made returns or raises: the
\* graph runtime runs the node it has chosen, and chat goes on when the graph
\* has ended
NextLive ==
    \E r \in Reqs :
        \/ Start(r, {"u1"}, Messages)
        \/ GuardrailCheck(r, ClsOutcomes)
        \/ RetrieveKnowledge(r, OwnBackends)
        \/ GenerateResponse(r, {"content", "raise"})
        \/ RejectQuery(r)
        \/ UpdateHistory(r)

\* a node that has been chosen is run and returns; chat updates the history
\* when the graph has ended
\* when the graph has ended. GuardrailCheck and GenerateResponse are enabled
\* exactly while the request is at their node and every step of them leaves
\* the node, so their weak fairness is written as: the request is not at the
\* node for ever
Returning ==
    \A r \in Reqs :
        /\ []<>(pc[r] # "guardrail_check")
        /\ WF_vars(RetrieveKnowledge(r, OwnBackends))
        /\ []<>(pc[r] # "generate_response")
        /\ WF_vars(RejectQuery(r))
        /\ WF_vars(UpdateHistory(r))

SpecLive == Init /\ [][NextLive]_vars /\ Returning

\* the knowledge managers at work on collections that start empty; no chat
\* request is served
InitKnowledge ==
    /\ historyStore = [u \in Users |-> <<>>]
    /\ convStore = [u \in Users |-> NoKey]
    /\ InitRequests({})

NextKnowledge ==
    \E source \in Sources :
        \/ AddEntity(source, Entities(source), {"ok", "raise"})
        \/ GetEntityById(source, KnowledgeIds, {"ok", "raise"})
        \/ DeleteEntity(source, KnowledgeIds, {"ok", "raise"})
        \/ UpdateEntity(source, KnowledgeIds, Entities(source), {"ok", "raise"})
        \/ SearchEntities(source, ListLimits, {"ok", "raise"})
        \/ GetAllEntities(source, ListLimits, {"ok", "raise"})

SpecKnowledge == InitKnowledge /\ [][NextKnowledge]_vars

\* the agent of langgraph_chatbot.py serving one request after the other,
\* with or without history in the request
NextSkeleton ==
    \/ SkeletonStart(Messages, {<<>>, <<Exchange("m1", "answer")>>})
    \/ SkeletonGuardrailCheck(GuardrailOutcomes)
    \/ \E i \in 1..Len(RetrievalChain) : SkeletonRetrieve(RetrievalChain[i])
    \/ SkeletonGenerateResponse({"content", "raise"})
    \/ SkeletonRejectQuery
    \/ SkeletonReturn

SpecSkeleton == InitKnowledge /\ [][NextSkeleton]_vars

\* ------------------------------------------------------------------------
\* Vocabulary of the properties
\* ------------------------------------------------------------------------

\* the graph has returned (chat is about to update the history, or has)
GraphDone(r) == pc[r] \in {"update_history", "done"}

\* node n ran in request r
Ran(r, n) == \E i \in 1..Len(path[r]) : path[r][i] = n

\* the classification call produced an object of the expected structure
WellFormed(r) == cls[r].kind = "object" /\ cls[r].language # "null"

\* the language the classification reported (English when the field is absent)
Detected(r) == IF cls[r].language = "absent" THEN "English" ELSE cls[r].language

\* the detected language is the default one
IsDefault(lang) == lang \in {"English", "english"}

\* no knowledge source was queried, the generation was not called
NoSearch(r) == calls[r].search = <<>> /\ calls[r].backends = <<>>
NoGeneration(r) == calls[r].generate = <<>>

\* ------------------------------------------------------------------------
\* C1 (as stated): a request classified is_ecommerce = false is routed to
\* Reject; its final response is the translated rejection message when the
\* detected language is not the default and the canonical one otherwise;
\* no knowledge source and no generation is called.
\* ------------------------------------------------------------------------
C1_AsStated ==
    \A r \in Reqs :
        (GraphDone(r) /\ WellFormed(r) /\ cls[r].is_ecommerce = "false") =>
            /\ path[r] = <<"guardrail_check", "reject_query">>
            /\ state[r].final_response =
                  (IF IsDefault(Detected(r)) THEN rejection_message
                   ELSE LlmTranslateRejection(Detected(r)))
            /\ NoSearch(r) /\ NoGeneration(r)

\* C1 (amended): a request whose classification is read successfully and
\* reports is_ecommerce = false is routed to Reject; its final response is the
\* translated rejection message when the detected language is not the default
\* and the translation call succeeds, and the canonical message otherwise
\* (default language, or translation call that fails); no knowledge source
\* and no generation is called.
C1_RejectRoute ==
    \A r \in Reqs :
        (GraphDone(r) /\ WellFormed(r) /\ cls[r].is_ecommerce = "false") =>
            /\ path[r] = <<"guardrail_check", "reject_query">>
            /\ (calls[r].reject_translation = NotCalled) <=> IsDefault(Detected(r))
            /\ calls[r].translate_reject = (IF IsDefault(Detected(r)) THEN 0 ELSE 1)
            /\ state[r].final_response =
                  (IF IsDefault(Detected(r)) \/ calls[r].reject_translation = Raised
                   THEN rejection_message
                   ELSE LlmTranslateRejection(Detected(r)))
            /\ NoSearch(r) /\ NoGeneration(r)
            /\ state[r].retrieved_contexts = <<>>

\* witness: a rejected request in a non-default language was answered with
\* the translated rejection message
C1_Witness ==
    \E r \in Reqs :
        /\ pc[r] = "done" /\ cls[r].is_ecommerce = "false" /\ cls[r].language = "Arabic"
        /\ reply[r] = LlmTranslateRejection("Arabic")

\* ------------------------------------------------------------------------
\* C2: a request classified is_followup = true and is_ecommerce = true
\* queries no knowledge source (the context stays empty) and still calls the
\* generation, with a prompt that carries the user's recent history when the
\* user has any.
\* ------------------------------------------------------------------------

RECURSIVE SerializedTurns(_)
\* the exchanges as alternating "User:" / "Assistant:" lines
SerializedTurns(exchanges) ==
    IF exchanges = <<>> THEN ""
    ELSE "User: " \o exchanges[1].message \o "\nAssistant: " \o exchanges[1].response
         \o (IF Len(exchanges) > 1 THEN "\n" \o SerializedTurns(Tail(exchanges)) ELSE "")

\* the stored exchanges of a user
StoredHistory(u) == [i \in 1..Len(historyStore[u]) |->
                        Exchange(historyStore[u][i][2], historyStore[u][i][4])]

\* the last three of them
RecentWindow(u) ==
    LET h == StoredHistory(u)
    IN [i \in 1..(IF Len(h) < 3 THEN Len(h) ELSE 3) |->
            h[Len(h) - (IF Len(h) < 3 THEN Len(h) ELSE 3) + i]]

C2_FollowUpRoute ==
    \A r \in Reqs :
        (pc[r] = "update_history" /\ WellFormed(r)
            /\ cls[r].is_followup = "true" /\ cls[r].is_ecommerce = "true") =>
            /\ path[r] = <<"guardrail_check", "generate_response">>
            /\ NoSearch(r)
            /\ state[r].retrieved_contexts = <<>>
            /\ Len(calls[r].generate) = 1
            /\ LET parts == calls[r].generate[1].prompt_parts
                   u == request[r].user_id
               IN IF StoredHistory(u) # <<>>
                  THEN parts[1] = "Previous conversation:\n"
                                    \o SerializedTurns(RecentWindow(u)) \o "\n"
                  ELSE \A i \in 1..Len(parts) :
                          parts[i] # "Previous conversation:\n"
                                       \o SerializedTurns(RecentWindow(u)) \o "\n"

\* witness: a follow-up of a user with stored history reached the generation
C2_Witness ==
    \E r \in Reqs :
        /\ pc[r] = "update_history" /\ cls[r].is_followup = "true" /\ cls[r].is_ecommerce = "true"
        /\ WellFormed(r)
        /\ Len(StoredHistory(request[r].user_id)) > 3
        /\ Len(calls[r].generate) = 1

\* ------------------------------------------------------------------------
\* C3: when the classification call fails (it raises, or what it returns does
\* not parse as the expected JSON object), the request is processed as if
\* classification had returned {is_ecommerce: true, is_followup: false,
\* language: English}: Retrieve then Generate, the retrieval query is the
\* original query, the target language is English, no rejection.
\* ------------------------------------------------------------------------

ClassificationFailed(r) == cls[r].kind \in {"raise", "unparsable", "nonobject"} \/ cls[r].language = "null"

DefaultClassification ==
    [kind |-> "object", language |-> "English", is_followup |-> "false", is_ecommerce |-> "true"]

\* the fields a classification decides
ClassifiedFields(st) ==
    <<st.user_language, st.english_query, st.is_followup, st.is_ecommerce_query, st.skip_retrieval>>

C3_FailOpen ==
    \A r \in Reqs :
        (ClassificationFailed(r) /\ pc[r] # "idle") =>
            /\ ClassifiedFields(state[r]) =
                 ClassifiedFields(guardrail_check_node(
                    initial_state(request[r].message, request[r].user_id),
                    DefaultClassification, NotCalled).state)
            /\ state[r].user_query = request[r].message
            /\ state[r].english_query = request[r].message
            /\ state[r].user_language = "English"
            /\ calls[r].translate_query = 0 /\ calls[r].translate_reject = 0
            /\ ~Ran(r, "reject_query")
            /\ pc[r] \in {"retrieve_knowledge", "generate_response", "update_history", "done"}
            /\ (pc[r] # "retrieve_knowledge" =>
                  /\ Len(calls[r].search) = Len(SourceOrder)
                  /\ \A i \in 1..Len(calls[r].search) : calls[r].search[i].query = request[r].message)
            /\ GraphDone(r) =>
                  /\ path[r] = <<"guardrail_check", "retrieve_knowledge", "generate_response">>
                  /\ state[r].final_response \in {"answer", "<LlmResponse object>", ApologyMessage}
                  /\ calls[r].generate[1].prompt_parts[Len(calls[r].generate[1].prompt_parts) - 1]
                       = "IMPORTANT: The user is communicating in English. You MUST respond in English language."

\* witness: a request whose classification was unparsable has been answered
C3_Witness ==
    \E r \in Reqs :
        /\ pc[r] = "done" /\ cls[r].kind = "unparsable"
        /\ Ran(r, "retrieve_knowledge") /\ reply[r] = "answer"

\* ------------------------------------------------------------------------
\* C4: the route after Classify is a total function of the classification
\* result: is_ecommerce false gives Reject; otherwise is_followup true gives
\* Generate directly; otherwise Retrieve then Generate. Exactly one of the
\* three routes is taken.
\* ------------------------------------------------------------------------

RouteReject == <<"guardrail_check", "reject_query">>
RouteDirect == <<"guardrail_check", "generate_response">>
RouteRetrieve == <<"guardrail_check", "retrieve_knowledge", "generate_response">>

C4_Routing ==
    \A r \in Reqs :
        GraphDone(r) =>
            /\ path[r] \in {RouteReject, RouteDirect, RouteRetrieve}
            /\ (path[r] = RouteReject) <=> ~state[r].is_ecommerce_query
            /\ (path[r] = RouteDirect) <=> (state[r].is_ecommerce_query /\ state[r].is_followup)
            /\ (path[r] = RouteRetrieve) <=> (state[r].is_ecommerce_query /\ ~state[r].is_followup)
            /\ WellFormed(r) =>
                  /\ state[r].is_ecommerce_query = (cls[r].is_ecommerce # "false")
                  /\ state[r].is_followup = (cls[r].is_followup = "true")

\* witness: an out-of-domain follow-up was rejected
C4_Witness ==
    \E r \in Reqs :
        /\ pc[r] = "done" /\ path[r] = RouteReject
        /\ cls[r].is_followup = "true" /\ cls[r].is_ecommerce = "false"

\* ------------------------------------------------------------------------
\* C5: in Retrieve, a source whose backend raises keeps no other source's
\* results out of the context and does not keep Generate from running: for
\* every combination of outcomes the context has exactly the keys of the
\* sources that returned matches, and the generation is called.
\* ------------------------------------------------------------------------

Succeeded(r) == {src \in Sources : calls[r].backends[src] = "hits"}

ContextOf(r, src) ==
    LET ctx == state[r].retrieved_contexts
        i == CHOOSE j \in 1..Len(ctx) : ctx[j].key = src
    IN ctx[i].value

C5_Isolation ==
    \A r \in Reqs :
        Ran(r, "retrieve_knowledge") =>
            /\ dict_keys(state[r].retrieved_contexts) = Succeeded(r)
            /\ \A src \in Succeeded(r) :
                  Len(ContextOf(r, src)) = (IF src \in {"products", "services"} THEN 3 ELSE 2)
            /\ pc[r] \in {"generate_response", "update_history", "done"}
            /\ GraphDone(r) =>
                  /\ path[r] = RouteRetrieve
                  /\ Len(calls[r].generate) = 1
                  /\ Len(SelectSeq(calls[r].generate[1].prompt_parts,
                         LAMBDA part : part = "Relevant information from our database:\n"
                                          \o combined_context(state[r].retrieved_contexts) \o "\n"))
                       = (IF Succeeded(r) = {} THEN 0 ELSE 1)

\* witness: two sources raised, one found nothing, one returned matches, and
\* the generation ran
C5_Witness ==
    \E r \in Reqs :
        /\ GraphDone(r) /\ Ran(r, "retrieve_knowledge") /\ Ran(r, "generate_response")
        /\ calls[r].backends["products"] = "raise"
        /\ calls[r].backends["services"] = "hits"
        /\ calls[r].backends["consultations"] = "raise"
        /\ calls[r].backends["specialists"] = "empty"
        /\ dict_keys(state[r].retrieved_contexts) = {"services"}

\* ------------------------------------------------------------------------
\* C6: a request that completes appends exactly one Exchange {message:
\* original query, response: final answer} to the user's history, whichever
\* branch produced the answer; the response stored is the text returned to
\* the caller, and nothing else (no failure flag) is stored with it.
\* ------------------------------------------------------------------------

\* the exchanges stored for user u in a history store
StoredIn(store, u) == [i \in 1..Len(store[u]) |-> Exchange(store[u][i][2], store[u][i][4])]

\* chat completes in this step
Completes(r) == pc[r] = "update_history" /\ pc'[r] = "done"

C6_AppendsExchange ==
    /\ [][\A r \in Reqs : Completes(r) =>
            LET u == request[r].user_id
                old == StoredIn(historyStore, u)
                new == StoredIn(historyStore', u)
            IN /\ new # <<>>
               /\ new[Len(new)] = Exchange(request[r].message, state[r].final_response)
               /\ Len(new) = (IF Len(old) < MaxHistory THEN Len(old) + 1 ELSE MaxHistory)
               /\ \A i \in 1..(Len(new) - 1) : new[i] = old[Len(old) - (Len(new) - 1) + i]
               /\ reply'[r] = new[Len(new)].response
               /\ Len(historyStore'[u][Len(new)]) = 4
               /\ \A v \in Users \ {u} : historyStore'[v] = historyStore[v]
               /\ convStore' = convStore]_vars
    /\ [](\A r \in Reqs : pc[r] = "done" =>
            /\ reply[r] = state[r].final_response
            /\ reply[r] \in {rejection_message, LlmTranslateRejection("Arabic"),
                             "answer", "<LlmResponse object>", ApologyMessage})

\* witness: a request of the user with a full history ended with the apology,
\* which is the last stored exchange
C6_Witness ==
    \E r \in Reqs :
        /\ pc[r] = "done" /\ request[r].user_id = "u1"
        /\ reply[r] = ApologyMessage
        /\ Len(historyStore["u1"]) = MaxHistory
        /\ historyStore["u1"][MaxHistory] = <<"message", request[r].message, "response", ApologyMessage>>

\* ------------------------------------------------------------------------
\* C7: when the generation fails (the client reports success = false: no
\* client, the call raised, the result could not be read), the final
\* response is the fixed apology, the result's answer is not used, the stored
\* conversation id is unchanged, and the failure is recorded in the request's
\* metadata only.
\* ------------------------------------------------------------------------

\* the generation ran in this step
Generates(r) == pc[r] = "generate_response" /\ pc'[r] # "generate_response"

GenerationFailed(r) ==
    calls[r].generate # <<>> /\ ~calls[r].generate[Len(calls[r].generate)].result.success

C7_GenerationFailure ==
    /\ [][\A r \in Reqs : (Generates(r) /\ GenerationFailed(r)') =>
            LET result == calls'[r].generate[1].result
            IN /\ state'[r].final_response = ApologyMessage
               /\ state'[r].final_response # result.answer
               /\ state'[r].final_response # result.error
               /\ convStore' = convStore
               /\ historyStore' = historyStore
               /\ dict_keys(state'[r].metadata) = {"error"}
               /\ state'[r].metadata[1].value = result.error
               /\ pc'[r] = "update_history"]_vars
    /\ [](\A r \in Reqs : (pc[r] = "done" /\ GenerationFailed(r)) => reply[r] = ApologyMessage)

\* witness: the generation raised for an Arabic follow-up of the known user;
\* the apology was returned and the conversation id is still stored
C7_Witness ==
    \E r \in Reqs :
        /\ pc[r] = "done" /\ GenerationFailed(r)
        /\ calls[r].generate[1].result.error = "evaluate_prompt error"
        /\ state[r].user_language = "Arabic"
        /\ reply[r] = ApologyMessage
        /\ convStore[request[r].user_id] = Encode("conv-1")

\* ------------------------------------------------------------------------
\* C8: no failure of the classification call, of a translation call, of a
\* knowledge source, of the generation or of the conversation-id store leaves
\* chat as an exception: whatever the outcomes, the request goes on to the
\* next step and ends with a text as response.
\* ------------------------------------------------------------------------

ResponseTexts ==
    {rejection_message, LlmTranslateRejection("Arabic"), "answer", "<LlmResponse object>",
     ApologyMessage}

\* the moves of a request that is served: along the graph, then the update
\* of the history and the return
ServedMoves ==
    {<<"idle", "guardrail_check">>,
     <<"guardrail_check", "reject_query">>,
     <<"guardrail_check", "retrieve_knowledge">>,
     <<"guardrail_check", "generate_response">>,
     <<"retrieve_knowledge", "generate_response">>,
     <<"generate_response", "update_history">>,
     <<"reject_query", "update_history">>,
     <<"update_history", "done">>,
     <<"done", "idle">>}

C9_HistoryBound ==
    /\ [](\A u \in Users :
            /\ Len(historyStore[u]) <= MaxHistory
            /\ TruncateHistory(StoredIn(historyStore, u)) = StoredIn(historyStore, u))
    /\ [][\A r \in Reqs : Completes(r) =>
            LET u == request[r].user_id
                old == StoredIn(historyStore, u)
                new == StoredIn(historyStore', u)
                written == Exchange(request[r].message, state[r].final_response)
            IN new = (IF Len(old) < MaxHistory THEN old ELSE Tail(old)) \o <<written>>]_vars

\* witness: more turns than the bound have completed and the history is full
C9_Witness ==
    /\ turns > MaxHistory /\ pc[1] = "done"
    /\ Len(historyStore["u1"]) = MaxHistory
    /\ historyStore["u1"][1][2] = "m2"
    /\ historyStore["u1"][MaxHistory][2] = "m1"

\* ------------------------------------------------------------------------
\* C10: what a write of the session store put under a user id is what a load
\* for the same user id returns right after it: the conversation id given to
\* set_conversation_id, and the history written by update_history.
\* ------------------------------------------------------------------------

C10_RoundTrip ==
    /\ (lastOp.op = "set_conversation_id" /\ lastOp.served) =>
          get_conversation_id("ok", convStore, lastOp.user) = lastOp.value[1]
    /\ lastOp.op = "update_history" =>
          get_history(historyStore, lastOp.user) = lastOp.value

\* witness: a conversation id was written and served by the store
C10_Witness ==
    /\ lastOp.op = "set_conversation_id" /\ lastOp.served
    /\ lastOp.user = "u1" /\ lastOp.value = <<"conv-1">>

\* ------------------------------------------------------------------------
\* C11: a missing session and an expired session are indistinguishable from
\* a brand-new user. An expiry leaves under the user id what a user never
\* seen has (no key); loading then yields an empty history and no
\* conversation id; and the request that follows gives the classification
\* and the generation what the request of a new user gives them: two
\* requests with the same message and the same outcomes of the external
\* calls, one of a user whose entries expired and one of a new user, are in
\* the same working state, have made the same calls and return the same
\* response.
\* ------------------------------------------------------------------------

\* the entries of a user never seen
NewUserHistory == <<>>
NewUserHandle == NoKey

\* the user of the request had no entry when the request started
NoSessionAtStart(r) ==
    session[r].start.history = NewUserHistory /\ session[r].start.handle = NewUserHandle

\* no other request of the same user overlaps request r
AloneForUser(r) == \A q \in Reqs \ {r} : pc[q] \in {"idle", "off"} \/ request[q].user_id # request[r].user_id

\* the external calls of the two requests had the same outcomes
SameOutcomes(r, q) ==
    /\ cls[r] = cls[q]
    /\ calls[r].reject_translation = calls[q].reject_translation
    /\ Len(calls[r].generate) = Len(calls[q].generate)
    /\ \A i \in 1..Len(calls[r].generate) :
          calls[r].generate[i].result.success = calls[q].generate[i].result.success

C11_ExpiredAsNew ==
    /\ [][\A u \in Users :
            /\ (lastOp'.op = "expire_handle" /\ lastOp'.user = u) => convStore'[u] = NewUserHandle
            /\ (lastOp'.op = "expire_history" /\ lastOp'.user = u) => historyStore'[u] = NewUserHistory]_vars
    /\ [](\A u \in Users :
            /\ historyStore[u] = NewUserHistory => get_history(historyStore, u) = <<>>
            /\ convStore[u] = NewUserHandle =>
                  \A redis \in RedisOutcomes : get_conversation_id(redis, convStore, u) = None)
    /\ [](\A r \in Reqs : (NoSessionAtStart(r) /\ AloneForUser(r)) =>
            /\ \A i \in 1..Len(calls[r].classify) :
                  calls[r].classify[i] = [history |-> "[No previous conversation]",
                                          query |-> request[r].message]
            /\ \A i \in 1..Len(calls[r].generate) :
                  /\ calls[r].generate[i].conversation_id = None
                  /\ calls[r].generate[i].prompt_parts[1]
                        = "Current user query: " \o request[r].message \o "\n"
            /\ session[r].loaded => session[r].history = <<>>
            /\ pc[r] = "done" =>
                  StoredIn(historyStore, request[r].user_id)
                     = <<Exchange(request[r].message, reply[r])>>)
    /\ [](\A r, q \in Reqs :
            (/\ r # q /\ request[r].user_id # request[q].user_id
             /\ NoSessionAtStart(r) /\ NoSessionAtStart(q)
             /\ request[r].message = request[q].message
             /\ pc[r] = pc[q] /\ pc[r] \notin {"idle", "off", "abandoned"}
             /\ SameOutcomes(r, q)) =>
                /\ state[r] = [state[q] EXCEPT !.user_id = request[r].user_id]
                /\ calls[r] = calls[q]
                /\ path[r] = path[q]
                /\ reply[r] = reply[q]
                /\ session[r] = session[q]
                /\ convStore[request[r].user_id] = convStore[request[q].user_id])

\* witness: the entries of the first user expired, the second user is new;
\* their requests with the same message were both answered by the generation
C11_Witness ==
    /\ pc[1] = "done" /\ pc[2] = "done"
    /\ request[1].user_id = "u1" /\ request[2].user_id = "u2"
    /\ request[1].message = request[2].message
    /\ NoSessionAtStart(1) /\ NoSessionAtStart(2)
    /\ reply[1] = "answer" /\ reply[2] = "answer"
    /\ calls[1] = calls[2]
    /\ historyStore["u1"] = <<DumpItem(Exchange("m1", "answer"))>>

\* ------------------------------------------------------------------------
\* C12: for an in-domain request that is no follow-up and whose detected
\* language is not the default, the translation is called once and the
\* normalized query it gives (the stripped translation) is the query of each
\* of the four searches and of nothing else: the generation prompt carries
\* the original query and the directive to answer in the detected language,
\* and the exchange stored carries the original query.
\* ------------------------------------------------------------------------

\* the classification sends the request to retrieval in a language that is
\* not the default
TranslatedRetrieval(r) ==
    /\ WellFormed(r) /\ ~IsDefault(Detected(r))
    /\ cls[r].is_ecommerce # "false" /\ cls[r].is_followup # "true"

\* the translation call of the query failed in request r
QueryTranslationFailed(r) == calls[r].query_translation = Raised

\* the texts a translation of the query yields once stripped
TranslatedQueries == {Strip(t) : t \in QueryTranslations \ {Raised}}

C12_TranslatedForRetrievalOnly ==
    \A r \in Reqs :
        (TranslatedRetrieval(r) /\ pc[r] \notin {"idle", "guardrail_check"}) =>
            /\ calls[r].translate_query = 1
            /\ state[r].english_query \in TranslatedQueries \cup {request[r].message}
            /\ state[r].user_query = request[r].message
            /\ state[r].user_language = Detected(r)
            /\ pc[r] # "retrieve_knowledge" =>
                  /\ Len(calls[r].search) = Len(SourceOrder)
                  /\ \A i \in 1..Len(SourceOrder) :
                        /\ calls[r].search[i].source = SourceOrder[i]
                        /\ calls[r].search[i].query = state[r].english_query
                        /\ ~QueryTranslationFailed(r) =>
                              calls[r].search[i].query \in TranslatedQueries
            /\ GraphDone(r) =>
                  /\ path[r] = RouteRetrieve
                  /\ LET parts == calls[r].generate[1].prompt_parts
                     IN /\ parts[Len(parts) - 2] = "Current user query: " \o request[r].message \o "\n"
                        /\ parts[Len(parts) - 1] =
                              "IMPORTANT: The user is communicating in " \o Detected(r)
                                 \o ". You MUST respond in " \o Detected(r) \o " language."
                        /\ \A i \in 1..Len(parts) : \A q \in TranslatedQueries :
                              parts[i] # "Current user query: " \o q \o "\n"
            /\ pc[r] = "done" =>
                  LET stored == StoredIn(historyStore, request[r].user_id)
                  IN stored[Len(stored)] = Exchange(request[r].message, reply[r])

\* witness: an Arabic query was translated, the four sources were searched
\* with the translation and the answer was stored with the original query
C12_Witness ==
    \E r \in Reqs :
        /\ pc[r] = "done" /\ TranslatedRetrieval(r) /\ cls[r].language = "Arabic"
        /\ state[r].english_query = "what is the price" /\ request[r].message = "m1"
        /\ \A i \in 1..Len(SourceOrder) : calls[r].search[i].query = "what is the price"
        /\ reply[r] = "answer"
        /\ historyStore[request[r].user_id][Len(historyStore[request[r].user_id])]
              = DumpItem(Exchange("m1", "answer"))

\* ------------------------------------------------------------------------
\* C13: a translation that fails neither changes the route nor ends the
\* request. When the translation of the query raises, the normalized query
\* is the original query, the fields read from the classification are kept,
\* and the request follows the route these fields give; when the
\* translation of the rejection message raises, the final response is the
\* canonical rejection message, word for word.
\* ------------------------------------------------------------------------

\* the route the classification read in request r gives
RouteOfClassification(r) ==
    IF cls[r].is_ecommerce = "false" THEN RouteReject
    ELSE IF cls[r].is_followup = "true" THEN RouteDirect
    ELSE RouteRetrieve

C13_TranslationFallback ==
    \A r \in Reqs :
        /\ calls[r].query_translation = Raised =>
              /\ WellFormed(r) /\ ~IsDefault(Detected(r))
              /\ state[r].english_query = request[r].message
              /\ state[r].user_language = Detected(r)
              /\ state[r].is_followup = (cls[r].is_followup = "true")
              /\ state[r].is_ecommerce_query = (cls[r].is_ecommerce # "false")
              /\ state[r].skip_retrieval = (cls[r].is_followup = "true")
              /\ pc[r] \in Nodes \cup {"update_history", "done"}
              /\ pc[r] \in Nodes => pc[r] = RouteOfClassification(r)[Len(path[r]) + 1]
              /\ GraphDone(r) => path[r] = RouteOfClassification(r)
              /\ \A i \in 1..Len(calls[r].search) : calls[r].search[i].query = request[r].message
        /\ calls[r].reject_translation = Raised =>
              /\ WellFormed(r) /\ ~IsDefault(Detected(r))
              /\ path[r] = RouteReject /\ RouteOfClassification(r) = RouteReject
              /\ state[r].final_response = rejection_message
              /\ pc[r] \in {"update_history", "done"}
              /\ pc[r] = "done" => reply[r] = rejection_message

\* witness: both translations raised in an Arabic request out of the domain,
\* which ended with the canonical rejection message
C13_Witness ==
    \E r \in Reqs :
        /\ pc[r] = "done" /\ cls[r].language = "Arabic" /\ cls[r].is_ecommerce = "false"
        /\ calls[r].query_translation = Raised /\ calls[r].reject_translation = Raised
        /\ state[r].english_query = "m1"
        /\ reply[r] = rejection_message

\* ------------------------------------------------------------------------
\* C14: no external call is made twice in a request. Once the guardrail has
\* run the classification has been called exactly once; the translation of
\* the query, the translation of the rejection message, the search of each
\* source and the generation have been called at most once; a call that
\* failed was made once and the request went on with the fallback.
\* ------------------------------------------------------------------------

\* the searches of source src made in request r
SearchesOf(r, src) == {i \in 1..Len(calls[r].search) : calls[r].search[i].source = src}

\* the request is past the guardrail
Classified(r) == pc[r] \in (Nodes \ {"guardrail_check"}) \cup {"update_history", "done"}

C14_NoRetry ==
    \A r \in Reqs :
        /\ Len(calls[r].classify) = (IF Classified(r) THEN 1 ELSE 0)
        /\ calls[r].translate_query \in {0, 1}
        /\ calls[r].translate_reject \in {0, 1}
        /\ \A src \in Sources : Cardinality(SearchesOf(r, src)) <= 1
        /\ Len(calls[r].generate) <= 1
        /\ \A n \in Nodes : Cardinality({i \in 1..Len(path[r]) : path[r][i] = n}) <= 1
        /\ (ClassificationFailed(r) /\ Classified(r)) =>
              pc[r] \in {"retrieve_knowledge", "generate_response", "update_history", "done"}
        /\ calls[r].query_translation = Raised => calls[r].translate_query = 1
        /\ calls[r].reject_translation = Raised => calls[r].translate_reject = 1
        /\ Ran(r, "retrieve_knowledge") =>
              \A src \in Sources : Cardinality(SearchesOf(r, src)) = 1
        /\ GenerationFailed(r) =>
              Len(calls[r].generate) = 1 /\ state[r].final_response = ApologyMessage

\* witness: the translation of the query, a source and the generation failed
\* in one request, which ended after one call of each
C14_Witness ==
    \E r \in Reqs :
        /\ pc[r] = "done" /\ cls[r].language = "Arabic" /\ cls[r].is_followup = "false"
        /\ calls[r].query_translation = Raised /\ calls[r].translate_query = 1
        /\ Ran(r, "retrieve_knowledge") /\ Len(calls[r].search) = 4
        /\ calls[r].backends["products"] = "raise"
        /\ GenerationFailed(r) /\ Len(calls[r].generate) = 1
        /\ Len(calls[r].classify) = 1

\* ------------------------------------------------------------------------
\* C15: after the fan-out, a source whose search returned matches has its
\* snippets stored under its own name in the context; a source whose search
\* returned an empty list, or whose backend failed, has no key in the
\* context, not even one with an empty list.
\* ------------------------------------------------------------------------

\* the snippets the node formats from the matches of a source
SnippetsOf(src) ==
    [i \in 1..n_results(src) |-> snippet(src, Ranked(src)[i])]

\* the entries of the context stored under a name
EntriesUnder(r, src) ==
    SelectSeq(state[r].retrieved_contexts, LAMBDA entry : entry.key = src)

C15_StoredOrOmitted ==
    \A r \in Reqs :
        Ran(r, "retrieve_knowledge") =>
            \A src \in Sources :
                /\ calls[r].backends[src] = "hits" =>
                      EntriesUnder(r, src) = <<[key |-> src, value |-> SnippetsOf(src)]>>
                /\ calls[r].backends[src] \in {"empty", "raise"} =>
                      EntriesUnder(r, src) = <<>>

\* witness: of four sources searched, one returned nothing and one failed;
\* the context has the two others
C15_Witness ==
    \E r \in Reqs :
        /\ pc[r] = "generate_response" /\ Ran(r, "retrieve_knowledge")
        /\ calls[r].backends = [src \in Sources |->
                                   CASE src = "services" -> "empty"
                                     [] src = "consultations" -> "raise"
                                     [] OTHER -> "hits"]
        /\ state[r].retrieved_contexts =
              <<[key |-> "products", value |-> SnippetsOf("products")],
                [key |-> "specialists", value |-> SnippetsOf("specialists")]>>

\* ------------------------------------------------------------------------
\* C16 (as stated): when the graph has returned, the entry of a source that
\* was queried and returned nothing is in the context with an empty list,
\* and the entry of a source that was skipped (reject route, follow-up
\* route) is not in the context.
\* ------------------------------------------------------------------------

\* source src was queried in request r and its search returned no match
QueriedNothing(r, src) == Ran(r, "retrieve_knowledge") /\ calls[r].backends[src] = "empty"

\* the sources were skipped in request r
Skipped(r) == ~Ran(r, "retrieve_knowledge")

C16_AsStated ==
    \A r \in Reqs :
        GraphDone(r) =>
            \A src \in Sources :
                /\ QueriedNothing(r, src) =>
                      EntriesUnder(r, src) = <<[key |-> src, value |-> <<>>]>>
                /\ Skipped(r) => EntriesUnder(r, src) = <<>>

\* C16 (amended): when the graph has returned, the entry of a source that
\* was queried and returned nothing is not in the context, no more than the
\* entry of a source that was skipped; the context has an entry only for a
\* source that returned matches, and no entry holds an empty list.
C16_ContextEntries ==
    \A r \in Reqs :
        GraphDone(r) =>
            /\ \A src \in Sources :
                  /\ QueriedNothing(r, src) => EntriesUnder(r, src) = <<>>
                  /\ Skipped(r) => EntriesUnder(r, src) = <<>>
            /\ Skipped(r) => state[r].retrieved_contexts = <<>>
            /\ \A i \in 1..Len(state[r].retrieved_contexts) :
                  /\ state[r].retrieved_contexts[i].value # <<>>
                  /\ state[r].retrieved_contexts[i].key \in Sources
                  /\ calls[r].backends[state[r].retrieved_contexts[i].key] = "hits"

\* witness: the four sources were queried, three returned nothing and the
\* context has the fourth only
C16_Witness ==
    \E r \in Reqs :
        /\ GraphDone(r) /\ Ran(r, "retrieve_knowledge")
        /\ calls[r].backends = [src \in Sources |-> IF src = "services" THEN "hits" ELSE "empty"]
        /\ dict_keys(state[r].retrieved_contexts) = {"services"}
        /\ QueriedNothing(r, "products")

\* ------------------------------------------------------------------------
\* C17: when the generation succeeds, the final response is the answer of
\* the result; if the result carries a conversation id, what is stored under
\* the user id after the step is that conversation id, and nothing but it;
\* if the result carries none, what is stored is what was stored before. No
\* other user's entry and no history changes in the step.
\* ------------------------------------------------------------------------

\* the result of the generation call of request r
GenerationResult(r) == calls[r].generate[Len(calls[r].generate)].result

\* a conversation id was returned
ReturnsHandle(result) == result.conversation_id # None /\ result.conversation_id # ""

C17_SuccessfulGeneration ==
    [][\A r \in Reqs : (Generates(r) /\ ~GenerationFailed(r)') =>
            LET result == GenerationResult(r)'
                u == request[r].user_id
            IN /\ result.success
               /\ state'[r].final_response = result.answer
               /\ result.answer \in {"answer", "<LlmResponse object>"}
               /\ dict_keys(state'[r].metadata) \cap {"error"} = {}
               /\ pc'[r] = "update_history"
               /\ IF ReturnsHandle(result)
                  THEN /\ convStore'[u] = Encode(result.conversation_id)
                       /\ get_conversation_id("ok", convStore', u) = result.conversation_id
                  ELSE convStore'[u] = convStore[u]
               /\ \A v \in Users \ {u} : convStore'[v] = convStore[v]
               /\ historyStore' = historyStore]_vars

\* witness: the generation succeeded with the conversation id of the user,
\* which the store holds after the write
C17_Witness ==
    \E r \in Reqs :
        /\ pc[r] = "update_history" /\ calls[r].generate # <<>>
        /\ GenerationResult(r).success /\ GenerationResult(r).conversation_id = "conv-1"
        /\ state[r].final_response = "answer"
        /\ session[r].writes = <<"set_conversation_id">>
        /\ convStore[request[r].user_id] = Encode("conv-1")

\* ------------------------------------------------------------------------
\* C18: no partial write of a user's session: a request that stops before
\* chat returns has written nothing to the stores; in particular it has
\* not written the conversation id when its exchange is not appended to the
\* history.
\* ------------------------------------------------------------------------

\* request r stopped before chat returned
Abandoned(r) == pc[r] = "abandoned"

\* request r has made this write
Wrote(r, op) == \E i \in 1..Len(session[r].writes) : session[r].writes[i] = op

Steps(r) == pc'[r] # pc[r]

\* no request of the user of r overlaps r or came before it
OnlyOfUser(r) ==
    \A q \in Reqs \ {r} : pc[q] \in {"idle", "off"} \/ request[q].user_id # request[r].user_id

\* the history a request alone leaves: the one it found, with its exchange
AloneHistory(r) ==
    TruncateHistory(Append(LoadHistory(session[r].start.history),
                           Exchange(request[r].message, reply[r])))

C19_DifferentUsers ==
    /\ [][\A r \in Reqs : Steps(r) =>
            LET u == request'[r].user_id
            IN /\ \A v \in Users \ {u} :
                     historyStore'[v] = historyStore[v] /\ convStore'[v] = convStore[v]
               /\ pc[r] = "guardrail_check" /\ pc'[r] # "abandoned" =>
                     calls'[r].classify[1] = combined_prompt(StoredIn(historyStore, u), request[r].message)
               /\ pc[r] = "generate_response" /\ pc'[r] # "abandoned" =>
                     /\ calls'[r].generate[1].conversation_id
                           \in {None, get_conversation_id("ok", convStore, u)}
                     /\ calls'[r].generate[1].message = full_message(state[r], StoredIn(historyStore, u))
               /\ pc[r] = "update_history" /\ pc'[r] # "abandoned" =>
                     session'[r].history = StoredIn(historyStore, u)]_vars
    /\ [](\A r \in Reqs : (pc[r] = "done" /\ OnlyOfUser(r)) =>
            /\ StoredIn(historyStore, request[r].user_id) = AloneHistory(r)
            /\ convStore[request[r].user_id] = session[r].start.handle
            /\ session[r].history = LoadHistory(session[r].start.history))

\* witness: a request of the first user and a request of the second user
\* are both between the load and the write of their histories
C19_Witness ==
    /\ pc[1] = "save_history" /\ pc[2] = "save_history"
    /\ request[1].user_id = "u1" /\ request[2].user_id = "u2"
    /\ session[1].history = PriorHistory /\ session[2].history = <<>>
    /\ state[1].final_response = "answer" /\ state[2].final_response = "answer"

\* ------------------------------------------------------------------------
\* C20: two overlapping requests of one user are not serialized: both can
\* load the same stored history before either writes, and then the write
\* made last replaces the one made first. Whenever both have returned after
\* loading the same history, the stored history is that history with one of
\* the two exchanges, and is neither of the two histories a serial run of the
\* two requests leaves.
\* ------------------------------------------------------------------------

\* the exchange request r appends
ExchangeOf(r) == Exchange(request[r].message, reply[r])

\* the two requests are of one user and their updates loaded the same history
SameLoad(r, q) ==
    /\ r # q /\ pc[r] = "done" /\ pc[q] = "done"
    /\ request[r].user_id = request[q].user_id
    /\ session[r].loaded /\ session[q].loaded
    /\ session[r].history = session[q].history

\* what is stored when request q runs after request r has returned
SerialHistory(r, q) ==
    TruncateHistory(Append(TruncateHistory(Append(session[r].history, ExchangeOf(r))),
                           ExchangeOf(q)))

C20_LastWriteWins ==
    \A r, q \in Reqs :
        SameLoad(r, q) =>
            LET stored == StoredIn(historyStore, request[r].user_id)
                prior == session[r].history
            IN /\ stored \in {TruncateHistory(Append(prior, ExchangeOf(r))),
                              TruncateHistory(Append(prior, ExchangeOf(q)))}
               /\ stored # SerialHistory(r, q)
               /\ stored # SerialHistory(q, r)
               /\ Len(stored) = (IF Len(prior) < MaxHistory THEN Len(prior) + 1 ELSE MaxHistory)

\* witness: both requests of the first user loaded its stored history; the
\* first was rejected, the second answered; only the exchange of the second
\* is in the stored history
C20_Witness ==
    /\ SameLoad(1, 2) /\ request[1].user_id = "u1"
    /\ session[1].history = PriorHistory
    /\ request[1].message = "m1" /\ reply[1] = rejection_message
    /\ request[2].message = "m2" /\ reply[2] = "answer"
    /\ StoredIn(historyStore, "u1") = TruncateHistory(Append(PriorHistory, Exchange("m2", "answer")))
    /\ \A i \in 1..Len(historyStore["u1"]) :
          StoredIn(historyStore, "u1")[i] # Exchange("m1", rejection_message)

\* ------------------------------------------------------------------------
\* C21: the prompt of the generation is made of these parts, in this order:
\* the prior exchanges as alternating user and assistant turns (only when the
\* user has any), the block of the sources (only when a source returned
\* matches: one block per such source, headed by its name, in the order
\* products, services, consultations, specialists, whichever sources failed),
\* the original query, the directive to answer in the target language; a
\* closing sentence follows. The message sent is the parts joined by line
\* ends.
\* ------------------------------------------------------------------------

\* the sources that returned matches in request r, in configuration order
HitSources(r) ==
    IF Ran(r, "retrieve_knowledge")
    THEN SelectSeq(<<"products", "services", "consultations", "specialists">>,
                   LAMBDA src : calls[r].backends[src] = "hits")
    ELSE <<>>

\* the block of a source: its name in capitals, then its snippets
SourceBlock(src) ==
    (CASE src = "products" -> "PRODUCTS"
       [] src = "services" -> "SERVICES"
       [] src = "consultations" -> "CONSULTATIONS"
       [] src = "specialists" -> "SPECIALISTS")
    \o ":\n" \o JoinWith(SnippetsOf(src), "\n")

\* the parts expected in the prompt of request r
ExpectedParts(r) ==
    LET u == request[r].user_id
        hits == HitSources(r)
    IN (IF StoredHistory(u) # <<>>
        THEN <<"Previous conversation:\n" \o SerializedTurns(RecentWindow(u)) \o "\n">>
        ELSE <<>>)
       \o (IF hits # <<>>
           THEN <<"Relevant information from our database:\n"
                  \o JoinWith([i \in 1..Len(hits) |-> SourceBlock(hits[i])], "\n\n") \o "\n">>
           ELSE <<>>)
       \o <<"Current user query: " \o request[r].message \o "\n",
            "IMPORTANT: The user is communicating in " \o state[r].user_language
               \o ". You MUST respond in " \o state[r].user_language \o " language.",
            "Please provide a helpful, friendly response based on the context and conversation history.">>

C21_PromptOrder ==
    \A r \in Reqs :
        (pc[r] = "update_history" /\ Ran(r, "generate_response")) =>
            /\ Len(calls[r].generate) = 1
            /\ calls[r].generate[1].prompt_parts = ExpectedParts(r)
            /\ calls[r].generate[1].message = JoinWith(ExpectedParts(r), "\n")

\* witness: the user has a history, the first and the third source returned
\* matches, the second failed and the fourth found nothing; the prompt has
\* the five parts
C21_Witness ==
    \E r \in Reqs :
        /\ pc[r] = "update_history" /\ Ran(r, "retrieve_knowledge") /\ Ran(r, "generate_response")
        /\ calls[r].backends = [src \in Sources |->
                                   CASE src = "products" -> "hits"
                                     [] src = "services" -> "raise"
                                     [] src = "consultations" -> "hits"
                                     [] src = "specialists" -> "empty"]
        /\ StoredHistory(request[r].user_id) # <<>>
        /\ state[r].user_language = "Arabic"
        /\ Len(calls[r].generate[1].prompt_parts) = 5
        /\ HitSources(r) = <<"products", "consultations">>

\* ------------------------------------------------------------------------
\* C22: the context given to the classification is the last min(3, n)
\* exchanges of the n exchanges stored for the user, in stored order; no
\* longer tail of the history is given; with no stored exchange the prompt
\* has the form for an empty context.
\* ------------------------------------------------------------------------

\* the last k stored exchanges of user u
StoredTail(u, k) ==
    LET h == StoredHistory(u)
    IN [i \in 1..k |-> h[Len(h) - k + i]]

\* the smaller of two numbers
Min(a, b) == IF a < b THEN a ELSE b

\* the guardrail of request r has run and chat has not yet updated the history
AfterClassify(r) == pc[r] \in {"retrieve_knowledge", "generate_response", "reject_query", "update_history"}

C22_ClassificationWindow ==
    \A r \in Reqs :
        AfterClassify(r) =>
            LET u == request[r].user_id
                n == Len(StoredHistory(u))
                given == calls[r].classify[1]
            IN /\ Len(calls[r].classify) = 1
               /\ given.query = request[r].message
               /\ n = 0 => given.history = "[No previous conversation]"
               /\ n > 0 => given.history = SerializedTurns(StoredTail(u, Min(3, n)))
               /\ \A k \in 0..n : k # Min(3, n) => given.history # SerializedTurns(StoredTail(u, k))

\* witness: the user has more than three stored exchanges and the
\* classification was given the last three
C22_Witness ==
    \E r \in Reqs :
        /\ AfterClassify(r) /\ request[r].user_id = "u1"
        /\ Len(StoredHistory("u1")) = MaxHistory
        /\ calls[r].classify[1].history = SerializedTurns(StoredTail("u1", 3))
        /\ calls[r].classify[1].history # SerializedTurns(StoredHistory("u1"))

\* ------------------------------------------------------------------------
\* C23: the working state of a request (its queries, its classification, its
\* knowledge context, its answer, its error notes) belongs to that request:
\* a step of one request leaves the working state, the classification and
\* the answer of every other request as they were, whether the two are of
\* one user or of two, and the queries in a working state stay those of its
\* own request.
\* ------------------------------------------------------------------------

\* what a request works on
Working(r) == <<request[r], state[r], cls[r], calls[r], path[r], reply[r]>>

\* requests r and q are both being served
Overlap(r, q) == r # q /\ pc[r] \in InFlight /\ pc[q] \in InFlight

OwnedState ==
    \A r \in Reqs :
        /\ Steps(r) => \A q \in Reqs \ {r} : Working(q)' = Working(q)
        /\ pc'[r] \in InFlight =>
              /\ state'[r].user_query = request'[r].message
              /\ state'[r].user_id = request'[r].user_id

C23_OwnedState == [][OwnedState]_vars

\* witness: two requests of one user overlap; the first has its answer and
\* its knowledge context, the second, with another message, has been started
\* after that and holds the initial state
C23_Witness ==
    /\ Overlap(1, 2)
    /\ request[1].user_id = request[2].user_id
    /\ request[1].message # request[2].message
    /\ pc[1] = "update_history" /\ Ran(1, "retrieve_knowledge")
    /\ dict_keys(state[1].retrieved_contexts) # {}
    /\ state[1].final_response # ""
    /\ pc[2] = "guardrail_check"
    /\ state[2] = initial_state(request[2].message, request[2].user_id)

\* ------------------------------------------------------------------------
\* C24: for each knowledge manager, adding a schema-valid entity whose id is
\* not in the collection, the backend answering, stores the entity and
\* returns a response with success true that carries the id; get by id then
\* returns the entity's data and not None.
\* ------------------------------------------------------------------------

\* the last operation added an entity with a new id and the backend answered
AddedNew == knowledge.op.op = "add" /\ ~knowledge.op.was_stored /\ knowledge.op.backend = "ok"

C24_AddThenGet ==
    AddedNew =>
        /\ knowledge.op.response.success
        /\ knowledge.op.response.data = Some(knowledge.op.id)
        /\ get_entity_by_id(knowledge.collection[knowledge.op.source], knowledge.op.id, "ok")
              = Some(flatten_metadata(knowledge.op.entity[1]))

\* the case of the claim for a manager that reads declared fields only: a
\* consultation with a new id was added and is returned by get by id
C24_Witness ==
    /\ AddedNew /\ knowledge.op.source = "consultations"
    /\ knowledge.op.response.success
    /\ get_entity_by_id(knowledge.collection["consultations"], knowledge.op.id, "ok") # Nothing

\* ------------------------------------------------------------------------
\* C25: a request follows one path Start -> Classify -> {Reject | Retrieve
\* -> Generate | Generate} -> End and ends: no stage runs twice, Reject and
\* Generate never both run, Retrieve is followed by Generate, the end is
\* reached from Reject or Generate only, and every request that has started
\* reaches the end.
\* ------------------------------------------------------------------------

\* the paths of a request that has reached the end
FullPaths ==
    {<<"guardrail_check", "reject_query">>,
     <<"guardrail_check", "retrieve_knowledge", "generate_response">>,
     <<"guardrail_check", "generate_response">>}

\* the stage a request is at after the stages of path p
StageAfter(p) ==
    IF p = <<>> THEN {"off", "idle", "guardrail_check"}
    ELSE IF p = <<"guardrail_check">> THEN {"reject_query", "retrieve_knowledge", "generate_response"}
    ELSE IF p = <<"guardrail_check", "retrieve_knowledge">> THEN {"generate_response"}
    ELSE IF p \in FullPaths THEN {"update_history", "done"}
    ELSE {}

OnePath == \A r \in Reqs : pc[r] \in StageAfter(path[r])

\* a step of a request runs the stage the request is at
RunsStage ==
    \A r \in Reqs :
        (pc[r] \in Nodes /\ Steps(r)) => path'[r] = Append(path[r], pc[r])

C25_OnePathToEnd ==
    /\ []OnePath
    /\ [][RunsStage]_vars
    /\ \A r \in Reqs : (pc[r] = "guardrail_check") ~> (GraphDone(r) /\ path[r] \in FullPaths)

\* witness: a request has reached the end over retrieval and generation
C25_Witness ==
    \E r \in Reqs :
        /\ pc[r] = "done"
        /\ path[r] = <<"guardrail_check", "retrieve_knowledge", "generate_response">>

\* ------------------------------------------------------------------------
\* C26: within one request the window of the history given to the generation
\* is the window that was given to the classification, also when another
\* request of the same user completes between the two stages.
\* ------------------------------------------------------------------------

\* the window the classification of request r was given; empty when the
\* prompt had the form for no previous conversation
ClassificationWindow(r) ==
    IF calls[r].classify[1].history = "[No previous conversation]" THEN ""
    ELSE calls[r].classify[1].history

\* the window the generation of request r was given
GenerationWindow(r) == calls[r].generate[1].conversation_history

C26_SameWindow ==
    \A r \in Reqs :
        Ran(r, "generate_response") => GenerationWindow(r) = ClassificationWindow(r)

\* a request of a user with a history that ran alone from its classification
\* to its generation was given the same window twice
C26_Witness ==
    \E r \in Reqs :
        /\ Ran(r, "generate_response") /\ pc[r] = "update_history"
        /\ \A q \in Reqs \ {r} : pc[q] = "idle"
        /\ ClassificationWindow(r) # ""
        /\ GenerationWindow(r) = ClassificationWindow(r)

\* ------------------------------------------------------------------------
\* C27: on the Retrieve route every knowledge source (products, services,
\* consultations, specialists) is queried exactly once, with the normalized
\* query, whatever the outcome of the sources queried before it; on the
\* Reject route and on the follow-up route no source is queried.
\* ------------------------------------------------------------------------

\* the searches of request r that went to source src
QueriesTo(r, src) == {i \in 1..Len(calls[r].search) : calls[r].search[i].source = src}

C27_FanOut ==
    \A r \in Reqs :
        /\ Ran(r, "retrieve_knowledge") =>
              /\ Len(calls[r].search) = Len(SourceOrder)
              /\ \A src \in Sources : Cardinality(QueriesTo(r, src)) = 1
              /\ \A i \in 1..Len(calls[r].search) :
                    calls[r].search[i].query = state[r].english_query
        /\ (GraphDone(r) /\ path[r] \in {RouteReject, RouteDirect}) => NoSearch(r)
        /\ ~Ran(r, "retrieve_knowledge") => NoSearch(r)

\* witness: the first source fails, the second finds nothing, and the two
\* others are queried all the same, with the translated query
C27_Witness ==
    \E r \in Reqs :
        /\ Ran(r, "retrieve_knowledge") /\ GraphDone(r)
        /\ calls[r].backends["products"] = "raise"
        /\ calls[r].backends["services"] = "empty"
        /\ calls[r].backends["consultations"] = "hits"
        /\ calls[r].backends["specialists"] = "hits"
        /\ QueriesTo(r, "consultations") # {} /\ QueriesTo(r, "specialists") # {}
        /\ state[r].english_query # state[r].user_query

\* ------------------------------------------------------------------------
\* C28: a knowledge source whose backend query raises during the fan-out is
\* recorded as an error note under the key of that source in the request's
\* diagnostics, and a source that was queried and returned nothing has no
\* note, so that the two can be told apart in the working state; the note is
\* not part of the response.
\* ------------------------------------------------------------------------

\* the sources of which the backend raised, and those that found nothing
FailedSources(r) == {src \in Sources : calls[r].backends[src] = "raise"}
EmptySources(r) == {src \in Sources : calls[r].backends[src] = "empty"}

\* the diagnostics of request r have a note for source src
Noted(r, src) == error_key(src) \in dict_keys(state[r].metadata)

C28_FailureNoted ==
    \A r \in Reqs :
        Ran(r, "retrieve_knowledge") =>
            /\ \A src \in FailedSources(r) : Noted(r, src)
            /\ \A src \in EmptySources(r) : ~Noted(r, src)
            /\ GraphDone(r) => state[r].final_response \in ResponseTexts

\* the case of the claim: one source failed and another found nothing, and
\* the working state of the request holds the same for the two
C28_Witness ==
    \E r \in Reqs :
        /\ Ran(r, "retrieve_knowledge") /\ GraphDone(r)
        /\ calls[r].backends["products"] = "raise"
        /\ calls[r].backends["services"] = "empty"
        /\ ~Noted(r, "products") /\ ~Noted(r, "services")
        /\ {"products", "services"} \cap dict_keys(state[r].retrieved_contexts) = {}

\* ------------------------------------------------------------------------
\* C29: in the agent with the guardrail on the domain only, the query goes
\* on to retrieval when the guardrail is disabled, and then no classifier
\* call is made, or when the classifier call raises or returns what cannot
\* be parsed; it is rejected, with the canonical rejection message, exactly
\* when a parsed response has is_ecommerce false or lacks the field; on the
\* route that goes on, the seven retrieval nodes run once each in the order
\* products, product_specs, reviews, inventory, pricing, shipping, support,
\* and the generation runs after them.
\* ------------------------------------------------------------------------

\* p is the beginning of q
IsPrefix(p, q) == Len(p) <= Len(q) /\ \A i \in 1..Len(p) : p[i] = q[i]

\* the two routes of the graph
SkeletonProceed == <<"guardrail_check">> \o RetrievalChain \o <<"generate_response">>
SkeletonReject == <<"guardrail_check", "reject_query">>

\* the guardrail has run
Guarded == skeleton.path # <<>>

\* the request is on the route that rejects
OnReject == skeleton.pc = "reject_query" \/ IsPrefix(SkeletonReject, skeleton.path)

\* the parsed response says no, or does not say
SaysNo ==
    /\ skeleton.enabled
    /\ skeleton.guardrail.kind = "object"
    /\ skeleton.guardrail.is_ecommerce \in {"false", "absent"}

\* the keys of the contexts in the order they were stored
ContextKeys == [i \in 1..Len(skeleton.state.retrieved_contexts) |-> skeleton.state.retrieved_contexts[i].key]

C29_Skeleton ==
    Guarded =>
        /\ ~skeleton.enabled => skeleton.guardrail = NoGuardrailCall
        /\ OnReject <=> SaysNo
        /\ OnReject =>
              /\ IsPrefix(skeleton.path, SkeletonReject)
              /\ skeleton.state.retrieved_contexts = <<>> /\ skeleton.generate = <<>>
              /\ skeleton.pc \in {"end", "done"} => skeleton.state.final_response = config_rejection_message
        /\ ~OnReject =>
              /\ IsPrefix(skeleton.path, SkeletonProceed)
              /\ skeleton.pc \in {"end", "done"} =>
                    /\ skeleton.path = SkeletonProceed
                    /\ ContextKeys = <<"products", "product_specs", "reviews", "inventory",
                                       "pricing", "shipping", "support">>
                    /\ Len(skeleton.generate) = 1
        /\ skeleton.pc = "done" => skeleton.reply = skeleton.state.final_response

\* witness: the classifier call raised and the request went through the
\* seven retrieval nodes to the generation
C29_Witness ==
    /\ skeleton.pc = "done" /\ skeleton.enabled
    /\ skeleton.guardrail.kind = "raise"
    /\ skeleton.path = SkeletonProceed
    /\ skeleton.reply = "answer"

\* ------------------------------------------------------------------------
\* C30: skip_retrieval equals is_followup in every reachable state, before
\* and after Classify: both are set from the same field of the
\* classification or both are reset to false. The route after Classify is
\* therefore the one that the pair (is_ecommerce, is_followup) gives, and
\* the test of skip_retrieval does not change it.
\* ------------------------------------------------------------------------

\* the route that the pair (is_ecommerce, is_followup) gives
RouteOfPair(st) ==
    IF ~st.is_ecommerce_query THEN "reject"
    ELSE IF st.is_followup THEN "direct_response"
    ELSE "retrieve"

C30_SkipIsFollowup ==
    \A r \in Reqs :
        /\ state[r].skip_retrieval = state[r].is_followup
        /\ Ran(r, "guardrail_check") =>
              /\ route_after_guardrail(state[r]) = RouteOfPair(state[r])
              /\ IF Len(path[r]) > 1 THEN path[r][2] = conditional_edges(RouteOfPair(state[r]))
                 ELSE pc[r] = conditional_edges(RouteOfPair(state[r]))

\* witness: the classification said follow-up, then the node failed on the
\* language and reset both fields; the request went to retrieval
C30_Witness ==
    \E r \in Reqs :
        /\ GraphDone(r) /\ cls[r].kind = "object"
        /\ cls[r].language = "null" /\ cls[r].is_followup = "true"
        /\ ~state[r].is_followup /\ ~state[r].skip_retrieval
        /\ path[r] = RouteRetrieve

\* ------------------------------------------------------------------------
\* C31: a classification response that is a JSON object but lacks a field
\* is completed field by field with the defaults language = English,
\* is_followup = false, is_ecommerce = true, the fields it has being taken
\* as they are; an object without is_ecommerce is never routed to Reject.
\* ------------------------------------------------------------------------

\* the classification of request r is an object that lacks a field
LacksField(r) ==
    /\ WellFormed(r)
    /\ "absent" \in {cls[r].language, cls[r].is_followup, cls[r].is_ecommerce}

C31_FieldDefaults ==
    \A r \in Reqs :
        (Classified(r) /\ LacksField(r)) =>
            /\ state[r].user_language = (IF cls[r].language = "absent" THEN "English" ELSE cls[r].language)
            /\ state[r].is_followup = (IF cls[r].is_followup = "absent" THEN FALSE ELSE cls[r].is_followup = "true")
            /\ state[r].is_ecommerce_query = (IF cls[r].is_ecommerce = "absent" THEN TRUE ELSE cls[r].is_ecommerce = "true")
            /\ cls[r].is_ecommerce = "absent" => (pc[r] # "reject_query" /\ ~Ran(r, "reject_query"))

\* witness: an object with is_followup only; the request was served over
\* retrieval and generation
C31_Witness ==
    \E r \in Reqs :
        /\ pc[r] = "done" /\ WellFormed(r)
        /\ cls[r].language = "absent" /\ cls[r].is_ecommerce = "absent" /\ cls[r].is_followup = "false"
        /\ path[r] = RouteRetrieve
        /\ state[r].user_language = "English"

\* ------------------------------------------------------------------------
\* C32: after Classify the fields that come from the classification
\* (language, is_followup, is_ecommerce, skip_retrieval) are all those of
\* the parsed response or all the fail-open defaults, never a mix. An
\* exception after the fields were set that is not a failure of the
\* translation call, such as a language that is no string, discards the
\* parsed values, a parsed is_ecommerce = false included, and the request
\* goes to Retrieve; a failure of the translation call keeps them.
\* ------------------------------------------------------------------------

\* the fields of the working state of request r that come from the classification
DerivedFields(r) ==
    <<state[r].user_language, state[r].is_followup, state[r].is_ecommerce_query,
      state[r].skip_retrieval>>

\* the fields as the parsed response of request r gives them
ParsedFields(r) ==
    <<Detected(r),
      cls[r].is_followup = "true",
      cls[r].is_ecommerce # "false",
      cls[r].is_followup = "true">>

\* the fail-open defaults
DefaultFields == <<"English", FALSE, TRUE, FALSE>>

\* the stage the request went to after Classify
StageAfterClassify(r) == IF Len(path[r]) > 1 THEN path[r][2] ELSE pc[r]

C32_AllOrNothing ==
    \A r \in Reqs :
        Classified(r) =>
            /\ WellFormed(r) => DerivedFields(r) = ParsedFields(r)
            /\ ~WellFormed(r) =>
                  /\ DerivedFields(r) = DefaultFields
                  /\ state[r].english_query = request[r].message
                  /\ StageAfterClassify(r) = "retrieve_knowledge"

\* witness: the parsed response said out of domain and follow-up, with a
\* language that is null; the request was answered over retrieval
C32_Witness ==
    \E r \in Reqs :
        /\ pc[r] = "done" /\ cls[r].kind = "object" /\ cls[r].language = "null"
        /\ cls[r].is_ecommerce = "false"
        /\ state[r].is_ecommerce_query
        /\ Ran(r, "retrieve_knowledge") /\ ~Ran(r, "reject_query")
        /\ reply[r] = "answer"

\* ------------------------------------------------------------------------
\* C33: when the detected language is the default one (English in any
\* case of letters) or the classification failed, the translation is not
\* called in that request, neither for the query nor for the rejection
\* message, and the query used for retrieval is the original query.
\* ------------------------------------------------------------------------

\* the request needs no translation
NoTranslationNeeded(r) ==
    ClassificationFailed(r) \/ (WellFormed(r) /\ IsDefault(Detected(r)))

C33_NoTranslation ==
    \A r \in Reqs :
        (Classified(r) /\ NoTranslationNeeded(r)) =>
            /\ calls[r].translate_query = 0 /\ calls[r].query_translation = NotCalled
            /\ calls[r].translate_reject = 0
            /\ calls[r].reject_translation = NotCalled
            /\ state[r].english_query = request[r].message
            /\ \A i \in 1..Len(calls[r].search) : calls[r].search[i].query = request[r].message
            /\ Ran(r, "reject_query") => state[r].final_response = rejection_message

\* witness: the language was reported as "english"; a request was rejected
\* with the canonical message
C33_Witness ==
    \E r \in Reqs :
        /\ pc[r] = "done" /\ WellFormed(r) /\ cls[r].language = "english"
        /\ path[r] = RouteReject
        /\ reply[r] = rejection_message
        /\ calls[r].translate_reject = 0

\* ------------------------------------------------------------------------
\* C34: a request routed to Reject neither reads nor writes the stored
\* conversation id of the user: no step of the request changes the stored
\* value or renews its expiry, the request holds no conversation id, and the
\* only write it makes to the stores is the update of the history.
\* ------------------------------------------------------------------------

\* request r is on the route that rejects
Rejected(r) == pc[r] = "reject_query" \/ Ran(r, "reject_query")

C34_RejectLeavesHandle ==
    /\ [](\A r \in Reqs : Rejected(r) =>
            /\ calls[r].generate = <<>>
            /\ state[r].conversation_id = None
            /\ ~Wrote(r, "set_conversation_id")
            /\ pc[r] = "done" => session[r].writes = <<"update_history">>)
    /\ [][\A r \in Reqs : (Steps(r) /\ Rejected(r)') =>
            /\ convStore' = convStore
            /\ lastOp'.op # "set_conversation_id"]_vars

\* witness: a request of the user with a stored conversation id was rejected
\* and has returned; the stored id is the one it found
C34_Witness ==
    \E r \in Reqs :
        /\ pc[r] = "done" /\ Ran(r, "reject_query")
        /\ request[r].user_id = "u1"
        /\ session[r].start.handle = Encode("conv-1")
        /\ convStore["u1"] = Encode("conv-1")
        /\ session[r].writes = <<"update_history">>

\* ------------------------------------------------------------------------
\* C35: once the stored conversation id of a user is there, no step of a
\* chat request, on any route and with any outcome, removes it or makes it
\* empty; the key is written only by a generation that succeeded, with the
\* non-empty conversation id of its result. (Expiry is no step of a
\* request.)
\* ------------------------------------------------------------------------

\* the stored conversation id of user u is there and not empty
HasHandle(store, u) == store[u] # NoKey /\ Decode(store[u]) \notin {"", None}

\* the last step wrote the key of user u
WroteHandle(op, u) == op.op = "set_conversation_id" /\ op.served /\ op.user = u

C35_HandleKept ==
    [][\A r \in Reqs : Steps(r) =>
         \A u \in Users :
            /\ HasHandle(convStore, u) => HasHandle(convStore', u)
            /\ (convStore'[u] # convStore[u] \/ WroteHandle(lastOp', u)) =>
                  /\ pc[r] = "generate_response" /\ u = request[r].user_id
                  /\ GenerationResult(r)'.success
                  /\ GenerationResult(r)'.conversation_id \notin {"", None}
                  /\ convStore'[u] = Encode(GenerationResult(r)'.conversation_id)]_vars

\* witness: the generation of a request of the user with a stored
\* conversation id failed; the id is still there
C35_Witness ==
    \E r \in Reqs :
        /\ pc[r] = "done" /\ request[r].user_id = "u1"
        /\ session[r].start.handle = Encode("conv-1")
        /\ Ran(r, "generate_response") /\ GenerationFailed(r)
        /\ HasHandle(convStore, "u1")

\* ------------------------------------------------------------------------
\* C36: the Abacus client returns the conversation id it was given, so no
\* step of any sequence of chat requests changes the stored conversation id
\* of a user: a user without one never gets one, and for a user with one
\* the only write puts the stored id back under its key (which renews its
\* time to live).
\* ------------------------------------------------------------------------

C36_HandleValueFixed ==
    /\ [][\A u \in Users : convStore'[u] = convStore[u]]_vars
    /\ [](\A r \in Reqs : \A i \in 1..Len(calls[r].generate) :
              calls[r].generate[i].result.conversation_id = calls[r].generate[i].conversation_id)
    /\ [](\A u \in Users : WroteHandle(lastOp, u) =>
              convStore[u] # NoKey /\ lastOp.value = <<Decode(convStore[u])>>)

\* witness: a new user after two requests answered by a successful
\* generation: still no stored conversation id
C36_Witness ==
    \E r \in Reqs :
        /\ turns >= 2 /\ pc[r] = "done" /\ request[r].user_id = "u1"
        /\ Len(historyStore["u1"]) >= 2
        /\ Ran(r, "generate_response") /\ GenerationResult(r).success
        /\ convStore["u1"] = NoKey

\* ------------------------------------------------------------------------
\* C37: when Redis is missing or its command raises, or the user id is
\* empty, get_conversation_id returns None and set_conversation_id leaves
\* the store as it is; neither makes the node fail: the generation step
\* still calls the Abacus client, with None as conversation id when the
\* load gave nothing, and passes on to the update of the history.
\* ------------------------------------------------------------------------

\* the call of the Abacus client made by the last generation of request r
GenerationCall(r) == calls[r].generate[Len(calls[r].generate)]

\* the load of the conversation id gave None although an id is stored
LoadFailed(r) ==
    /\ calls[r].generate # <<>>
    /\ GenerationCall(r).conversation_id = None
    /\ HasHandle(convStore, request[r].user_id)

C37_StoreFailureTolerated ==
    /\ [](\A u \in Users : \A redis \in RedisOutcomes :
            (redis = "down" \/ u = "") =>
               /\ get_conversation_id(redis, convStore, u) = None
               /\ set_conversation_id(redis, convStore, u, "conv-1") = convStore)
    /\ [](convStore[""] = NoKey)
    /\ [](\A r \in Reqs : \A i \in 1..Len(calls[r].generate) :
            request[r].user_id = "" => calls[r].generate[i].conversation_id = None)
    /\ [][\A r \in Reqs : Generates(r) =>
            /\ pc'[r] = "update_history"
            /\ Len(calls'[r].generate) = Len(calls[r].generate) + 1
            /\ GenerationCall(r)'.conversation_id
                 \in {None, get_conversation_id("ok", convStore, request[r].user_id)}
            /\ GenerationCall(r)'.result.success =>
                 state'[r].final_response = GenerationCall(r)'.result.answer
            /\ (lastOp'.op = "set_conversation_id" /\ ~lastOp'.served) =>
                 convStore' = convStore]_vars

\* witness: the user has a stored conversation id, the load gave None, the
\* Abacus client was called without an id and answered, the request went on
C37_Witness ==
    \E r \in Reqs :
        /\ pc[r] = "done" /\ request[r].user_id = "u1"
        /\ LoadFailed(r)
        /\ GenerationCall(r).result.success
        /\ reply[r] # None

\* ------------------------------------------------------------------------
\* C38: no operation of a knowledge manager raises to its caller. An add,
\* an update or a delete that fails returns an OperationResponse with
\* success false and the text of the error and leaves the collection as it
\* was; a search or a listing that fails returns the empty list; a get by
\* id that fails or matches nothing returns None.
\* ------------------------------------------------------------------------

\* the operation failed: the backend raised, or the searchable text could
\* not be built
Failing(op) ==
    \/ op.backend = "raise"
    \/ op.op \in {"add", "update"} /\ create_searchable_text(op.source, op.entity[1]).raised

C38_ManagersNeverRaise ==
    /\ [](~knowledge.op.raised)
    /\ [](Failing(knowledge.op) =>
            /\ knowledge.op.op \in {"add", "update", "delete"} =>
                  /\ ~knowledge.op.response.success
                  /\ knowledge.op.response.error # ""
                  /\ knowledge.op.response.data = Nothing
            /\ knowledge.op.op \in {"search", "get_all"} => knowledge.op.results = <<>>
            /\ knowledge.op.op = "get" => knowledge.op.returned = Nothing)
    /\ []((knowledge.op.op = "get" /\ ~knowledge.op.was_stored) => knowledge.op.returned = Nothing)
    /\ [][Failing(knowledge.op)' => knowledge'.collection = knowledge.collection]_vars

\* witness: the update of a stored consultation failed in the backend; the
\* response says so and the entry is still the one stored
C38_Witness ==
    /\ knowledge.op.op = "update" /\ knowledge.op.source = "consultations"
    /\ knowledge.op.backend = "raise" /\ knowledge.op.was_stored
    /\ ~knowledge.op.response.success
    /\ Stored(knowledge.collection["consultations"], knowledge.op.id) # {}

====
